---- MODULE Spec2Model ----
(***************************************************************************)
(* A model of the task-pipeline engine (G.R.I.T): the SQLite metadata      *)
(* store (step / resource / task), the BadgerDB object store, the resource *)
(* ingestion workers, the pipeline scheduler and the FUSE output sink.     *)
(*                                                                         *)
(* The tables are sets of rows; AUTOINCREMENT ids come from counters.  A   *)
(* name (of a step, a resource, a file) is a sequence of one-character     *)
(* strings, so that the name derivations of the code are computed.         *)
(***************************************************************************)
EXTENDS Integers, Sequences, FiniteSets, Bags, TLC

VARIABLES
    step,        \* the step table: set of rows
    resource,    \* the resource table: set of rows
    task,        \* the task table: set of rows
    seqResource, \* sqlite_sequence of resource (last AUTOINCREMENT id)
    seqTask,     \* sqlite_sequence of task
    objects,     \* BadgerDB: set of [hash, data]
    lastOp,      \* the database call that produced this state, with its result
    \* MakeResourceConsumer
    outputChan,  \* chan FileData: emissions waiting for a hash worker
    storeChan,   \* chan storeJob
    dbJobChan,   \* chan dbJob
    dbWorker,    \* each DB worker: Idle, or its job between INSERT and SELECT
    returned,    \* the results CreateResource has returned: [name, hash, id, err]
    emitted,     \* number of emissions handed to the database so far
    \* run and Pipeline.Execute
    build,       \* which Pipeline.Seed the binary was built with
    manifest,    \* the steps of the manifest file, as run reads it at its start
    chan,        \* the unbounded channel Chan: its in and out channels and the queue of run
    outputWatcher, \* the OutputWatcher: the watched directory, the events, the seen map
    pool,        \* who holds the one connection of the sql.DB pool
    runPc,       \* "idle": no run in progress; "seed", "steps": inside Execute
    stepsLeft,   \* ids of stepsIndex that Execute has not iterated over yet
    numberOfExecutions, \* the count of the current Execute pass
    executed,    \* ids of the tasks whose script was executed
    ranBefore,   \* a run has returned on this repository
    passOrder,   \* the steps ExecuteStep was called on in this pass, in order
    spawned,     \* the bag of task ids: one copy for each time the task's script was run
    rerunTerminal, \* this run started on a terminal pipeline, no file came since
    \* Pipeline.ExecuteStep with its FuseWatcher
    outputDir,   \* what OUTPUT_DIR of the scripts is: "mount" or "tmp"
    stepPc,      \* "none", "running", "stopping", "draining", "returned", "panic"
    closed,      \* FuseWatcher.closed
    handles,     \* the open fuseFile handles: [h, task, name, content, pc]
    files,       \* the names registered in the watcher's files map
    written,     \* the files closed so far: [task, Name, data, how, inTask]
    queue,       \* the collected tasks no worker has taken yet
    running,     \* the tasks whose script is running
    \* the workers of a step
    arch,        \* "part_006": workers.Parallel0; "run.go": global workers and semaphores
    maxParallel, \* the -parallel flag
    worker       \* the worker goroutines: what each one does

dbVars == <<step, resource, task, seqResource, seqTask, objects, lastOp>>

ingestVars == <<outputChan, storeChan, dbJobChan, dbWorker, returned, emitted>>

runVars == <<build, manifest, chan, outputWatcher, pool, runPc, stepsLeft, numberOfExecutions, executed, ranBefore, passOrder, spawned,
            rerunTerminal>>

stepVars == <<outputDir, stepPc, closed, handles, files, written, queue, running>>

parVars == <<arch, maxParallel, worker>>

vars == <<dbVars, ingestVars, runVars, stepVars, parVars>>

\* what the calls on the database alone leave unchanged
notDb == <<ingestVars, runVars, stepVars, parVars>>

\* what the resource consumer leaves unchanged
notIngest == <<runVars, stepVars, parVars>>

\* what a run leaves unchanged
notRun == <<storeChan, dbJobChan, dbWorker, returned, stepVars, parVars>>

\* what the execution of one step leaves unchanged
notStep == <<storeChan, dbJobChan, dbWorker, returned, runVars, parVars>>

----------------------------------------------------------------------------
(* Values *)

\* SQL NULL in an integer column, a nil pointer
NULL == 0
\* SQL NULL in step.parallel, a nil *int (0 is a value of the column)
NoParallel == -1
\* SQL NULL in the error column (a nil *string)
NoError == "NULL"
\* the result recorded for a call that returned a non-nil error
Failed == -1

nA == <<"a">>
nB == <<"b">>
nC == <<"c">>
nX == <<"x">>

\* payloads (file contents) are small non-empty byte strings
Payloads == {<<1>>, <<2>>}

\* sha256 + hex.EncodeToString: injective on the payloads of the model
SHA256(data) == <<"sha">> \o data

Hashes == {SHA256(d) : d \in Payloads}

----------------------------------------------------------------------------
(* Bounds *)

\* cap on the rows ever inserted into resource
MaxResources == 2
\* cap on the rows ever inserted into task
MaxTasks == 2
\* emissions handed to the database in one behaviour
MaxEmissions == 3
\* runtime.NumCPU(): the number of DB workers
NumCPU == 2
\* capacity of fuseOutputs (10 in ExecuteStep), scaled down
ChanCap == 2
\* the largest parallel value of a step and of the -parallel flag
MaxPar == 2
\* the unprocessed tasks ExecuteStep collects
NumCollected == 4
\* cap on the rows of step when scripts and inputs are edited
MaxSteps == 3
\* cap on the rows of task, the copies of a migration included
MaxRows == 4
\* the failures of UpdateTaskStatus one task can meet
MaxFaults == 1

----------------------------------------------------------------------------
(* Set helpers *)

Max(S) == CHOOSE x \in S : \A y \in S : y <= x
Min(S) == CHOOSE x \in S : \A y \in S : x <= y

\* the rank (1..n) of x in the finite set of integers S
Rank(x, S) == Cardinality({y \in S : y <= x})

Range(f) == {f[i] : i \in DOMAIN f}

----------------------------------------------------------------------------
(* The step table of the manifest used for the database-level checks:      *)
(* a start step without inputs and a consumer of two resource names.       *)

StepRow(id, name, isStart, parallel, inputs, version) ==
    [id |-> id, name |-> name, script |-> name, is_start |-> isStart,
     parallel |-> parallel, inputs |-> inputs, version |-> version]

ManifestSteps ==
    { StepRow(1, nA, TRUE, NoParallel, <<>>, 1),
      StepRow(2, nB, FALSE, NoParallel, <<nB, nC>>, 1) }

StepIds == {s.id : s \in step}

\* Database.GetStep
GetStep(id) == CHOOSE s \in step : s.id = id

\* the (name, payload) pairs of the resources of the database-level checks:
\* two of a name the consumer takes, one of its other name, one nobody takes
ResourcePairs == {<<nB, <<1>>>>, <<nB, <<2>>>>, <<nC, <<1>>>>, <<nX, <<1>>>>}

----------------------------------------------------------------------------
(* Schema constraints *)

\* a task table declared without the UNIQUE constraint
TaskUniqueConflictDropped(stepID, rid) == FALSE

\* UNIQUE(step_id, input_resource_id) of task; SQLite treats NULLs as
\* distinct, so a NULL input never conflicts
TaskUniqueConflict(stepID, rid) ==
    /\ rid # NULL
    /\ \E t \in task : t.step_id = stepID /\ t.input_resource_id = rid

\* a resource table declared without the UNIQUE constraint
ResourceUniqueConflictDropped(name, hash) == FALSE

\* UNIQUE(name, object_hash) of resource
ResourceUniqueConflict(name, hash) ==
    \E r \in resource : r.name = name /\ r.object_hash = hash

TaskRow(id, stepID, rid, processed, error) ==
    [id |-> id, step_id |-> stepID, input_resource_id |-> rid,
     processed |-> processed, error |-> error]

----------------------------------------------------------------------------
(* Database operations on the tables *)

\* again: the call before this one was the same call on the same step
RecordOp(op, s, ret) ==
    lastOp' = [op |-> op, step |-> s, ret |-> ret,
               again |-> (s # NULL /\ lastOp.op = op /\ lastOp.step = s)]

\* Database.CreateResource: INSERT ... ON CONFLICT DO NOTHING, then SELECT id
CreateResourceRows(name, hash) ==
    IF ResourceUniqueConflict(name, hash)
    THEN resource
    ELSE resource \cup {[id |-> seqResource + 1, name |-> name, object_hash |-> hash]}

ResourceId(rows, name, hash) ==
    (CHOOSE r \in rows : r.name = name /\ r.object_hash = hash).id

CreateResource(name, hash) ==
    /\ ResourceUniqueConflict(name, hash) \/ seqResource < MaxResources
    /\ resource' = CreateResourceRows(name, hash)
    /\ seqResource' = IF ResourceUniqueConflict(name, hash) THEN seqResource ELSE seqResource + 1
    /\ RecordOp("other", NULL, 0)
    /\ UNCHANGED <<step, task, seqTask, objects>>

\* the SELECT without its NOT EXISTS clause
SchedulableResourcesNoExists(stepID) ==
    { r \in resource : r.name \in Range(GetStep(stepID).inputs) }

\* the SELECT without its r.name IN (...) clause
SchedulableResourcesAnyName(stepID) ==
    { r \in resource : ~ \E t \in task : t.step_id = stepID /\ t.input_resource_id = r.id }

\* the SELECT of ScheduleTasksForStep: the resources named in the step's
\* inputs that have no task of this step
SchedulableResources(stepID) ==
    { r \in resource :
        /\ r.name \in Range(GetStep(stepID).inputs)
        /\ ~ \E t \in task : t.step_id = stepID /\ t.input_resource_id = r.id }

\* Database.GetUnconsumedResourcesByName
GetUnconsumedResourcesByName(name, consumingStepID) ==
    { r \in resource :
        /\ r.name = name
        /\ ~ \E t \in task : t.input_resource_id = r.id /\ t.step_id = consumingStepID }

\* the rows of INSERT INTO task SELECT ?, r.id, 0, NULL over the set rs
ScheduledRows(stepID, rs) ==
    { TaskRow(seqTask + Rank(r.id, {q.id : q \in rs}), stepID, r.id, FALSE, NoError) : r \in rs }

\* Database.ScheduleTasksForStep
ScheduleTasksForStep(stepID) ==
    LET rs == SchedulableResources(stepID)
        conflict == \E r \in rs : TaskUniqueConflict(stepID, r.id)
    IN /\ seqTask + Cardinality(rs) <= MaxTasks
       /\ IF Len(GetStep(stepID).inputs) = 0
          THEN /\ RecordOp("ScheduleTasksForStep", stepID, 0)
               /\ UNCHANGED <<task, seqTask>>
          ELSE IF conflict
          THEN \* the statement aborts on the constraint: "failed to schedule tasks"
               /\ RecordOp("ScheduleTasksForStep", stepID, Failed)
               /\ UNCHANGED <<task, seqTask>>
          ELSE /\ task' = task \cup ScheduledRows(stepID, rs)
               /\ seqTask' = seqTask + Cardinality(rs)
               /\ RecordOp("ScheduleTasksForStep", stepID, Cardinality(rs))
       /\ UNCHANGED <<step, resource, seqResource, objects>>

\* Database.CreateTask: a plain INSERT, which the UNIQUE constraint rejects
CreateTask(stepID, rid, processed) ==
    /\ TaskUniqueConflict(stepID, rid) \/ seqTask < MaxTasks
    /\ IF TaskUniqueConflict(stepID, rid)
       THEN /\ RecordOp("CreateTask", NULL, Failed)
            /\ UNCHANGED <<task, seqTask>>
       ELSE /\ task' = task \cup {TaskRow(seqTask + 1, stepID, rid, processed, NoError)}
            /\ seqTask' = seqTask + 1
            /\ RecordOp("CreateTask", NULL, 0)
    /\ UNCHANGED <<step, resource, seqResource, objects>>

\* Database.CreateTasksFromResources: one transaction of
\* INSERT ... ON CONFLICT(step_id, input_resource_id) DO NOTHING, one per id
RECURSIVE InsertFromResources(_, _, _, _)
InsertFromResources(rows, seq, stepID, ids) ==
    IF ids = <<>> THEN [rows |-> rows, seq |-> seq]
    ELSE IF \E t \in rows : t.step_id = stepID /\ t.input_resource_id = Head(ids)
         THEN InsertFromResources(rows, seq, stepID, Tail(ids))
         ELSE InsertFromResources(rows \cup {TaskRow(seq + 1, stepID, Head(ids), FALSE, NoError)},
                                  seq + 1, stepID, Tail(ids))

CreateTasksFromResources(stepID, resourceIDs) ==
    LET out == InsertFromResources(task, seqTask, stepID, resourceIDs)
    IN /\ out.seq <= MaxTasks
       /\ task' = out.rows
       /\ seqTask' = out.seq
       /\ RecordOp("other", NULL, 0)
       /\ UNCHANGED <<step, resource, seqResource, objects>>

\* a mistaken UPDATE: no WHERE id = ?
UpdateTaskStatusRowsNoWhere(id, processed, errorMsg) ==
    { [t EXCEPT !.processed = processed, !.error = errorMsg] : t \in task }

\* Database.UpdateTaskStatus
UpdateTaskStatusRows(id, processed, errorMsg) ==
    { IF t.id = id THEN [t EXCEPT !.processed = processed, !.error = errorMsg] ELSE t : t \in task }

UpdateTaskStatus(id, processed, errorMsg) ==
    /\ task' = UpdateTaskStatusRows(id, processed, errorMsg)
    /\ RecordOp("other", NULL, 0)
    /\ UNCHANGED <<step, resource, seqResource, seqTask, objects>>

\* a mistaken DELETE: no WHERE step_id = ?
MarkStepUndoneRowsNoWhere(stepID) == {}

\* the rows DELETE FROM task WHERE step_id = ? leaves
MarkStepUndoneRows(stepID) == {t \in task : t.step_id # stepID}

\* Database.MarkStepUndone: one transaction with the DELETE on task
MarkStepUndone(stepID) ==
    /\ task' = MarkStepUndoneRows(stepID)
    /\ RecordOp("MarkStepUndone", stepID, 0)
    /\ UNCHANGED <<step, resource, seqResource, seqTask, objects>>

----------------------------------------------------------------------------
(* SpecDB: the database calls of the scheduler, of the ingestion goroutine *)
(* and of the operator commands, in any order.                             *)

InitDB ==
    /\ step = ManifestSteps
    /\ resource = {}
    /\ task = {}
    /\ seqResource = 0
    /\ seqTask = 0
    /\ objects = {}
    /\ lastOp = [op |-> "NewDatabase", step |-> NULL, ret |-> 0, again |-> FALSE]

nDone == <<"d", "o", "n", "e">>

\* the Step values run passes to CreateStep: the stub "done", then the
\* manifest's steps (a ManifestStep has no inputs)
RunSteps ==
    << [name |-> nDone, script |-> <<>>, is_start |-> FALSE, parallel |-> NoParallel, inputs |-> <<>>],
       [name |-> nA, script |-> nA, is_start |-> TRUE, parallel |-> NoParallel, inputs |-> <<>>],
       [name |-> nB, script |-> nB, is_start |-> FALSE, parallel |-> NoParallel, inputs |-> <<>>] >>

\* NewBoundlessChan was not called
NoChan == [pc |-> "none"]

\* no OutputWatcher was made
NoWatcher == [pc |-> "none"]

\* the connection of the pool (SetMaxOpenConns(1)) is idle
NoConn == "idle"

\* the run command was not started
InitNoRun ==
    /\ build = "part_007"
    /\ manifest = RunSteps
    /\ chan = NoChan
    /\ outputWatcher = NoWatcher
    /\ pool = NoConn
    /\ runPc = "idle"
    /\ stepsLeft = {}
    /\ numberOfExecutions = 0
    /\ executed = {}
    /\ ranBefore = FALSE
    /\ passOrder = <<>>
    /\ spawned = EmptyBag
    /\ rerunTerminal = FALSE

\* a worker goroutine waiting on its channel
Idle == [pc |-> "idle"]

\* no worker pool was started
InitNoPar ==
    /\ arch = "part_006"
    /\ maxParallel = 1
    /\ worker = [w \in 1..MaxPar |-> Idle]

\* no step is being executed with a FuseWatcher of its own
InitNoStep ==
    /\ outputDir = "mount"
    /\ stepPc = "none"
    /\ closed = FALSE
    /\ handles = {}
    /\ files = {}
    /\ written = {}
    /\ queue = {}
    /\ running = {}
    /\ InitNoPar

\* no resource consumer was made
InitNoConsumer ==
    /\ outputChan = <<>>
    /\ storeChan = <<>>
    /\ dbJobChan = <<>>
    /\ dbWorker = [w \in 1..NumCPU |-> Idle]
    /\ returned = {}
    /\ emitted = 0

\* the lists of resource ids a caller may pass: one or two existing ids,
\* also the same id twice
ResourceIdLists ==
    LET ids == {r.id : r \in resource}
    IN {<<i>> : i \in ids} \cup {<<p[1], p[2]>> : p \in {q \in ids \X ids : q[1] <= q[2]}}

DbCreateResource ==
    /\ \E p \in ResourcePairs : CreateResource(p[1], SHA256(p[2]))
    /\ UNCHANGED notDb

DbScheduleTasksForStep ==
    /\ \E s \in StepIds : ScheduleTasksForStep(s)
    /\ UNCHANGED notDb

DbCreateTask ==
    \E s \in StepIds, rid \in {r.id : r \in resource} \cup {NULL} :
        \* Seed creates the NULL-input task for the start step only
        /\ rid = NULL => GetStep(s).is_start
        /\ CreateTask(s, rid, FALSE)
        /\ UNCHANGED notDb

DbCreateTasksFromResources ==
    /\ \E s \in StepIds, ids \in ResourceIdLists : CreateTasksFromResources(s, ids)
    /\ UNCHANGED notDb

\* the outcome of a step's script: the start step's script succeeds, a
\* consumer's script exits non-zero
ScriptError(stepID) == IF GetStep(stepID).is_start THEN NoError ELSE "exit status 1"

DbUpdateTaskStatus ==
    \E t \in task :
        /\ ~t.processed
        /\ UpdateTaskStatus(t.id, TRUE, ScriptError(t.step_id))
        /\ UNCHANGED notDb

DbMarkStepUndone ==
    \E s \in StepIds :
        /\ \E t \in task : t.step_id = s
        /\ MarkStepUndone(s)
        /\ UNCHANGED notDb

NextDB ==
    \/ DbCreateResource
    \/ DbScheduleTasksForStep
    \/ DbCreateTask
    \/ DbCreateTasksFromResources
    \/ DbUpdateTaskStatus
    \/ DbMarkStepUndone

\* a fresh repository, no pipeline running
InitSpecDB ==
    /\ InitDB
    /\ InitNoConsumer
    /\ InitNoRun
    /\ InitNoStep

SpecDB == InitSpecDB /\ [][NextDB]_vars

----------------------------------------------------------------------------
(* C1: in every reachable state the task table holds at most one row for   *)
(* a step and a non-null input resource, whatever order of                 *)
(* ScheduleTasksForStep, CreateTasksFromResources, CreateTask and          *)
(* MarkStepUndone produced the state.                                      *)
C1_TaskPairUnique ==
    \A t1 \in task, t2 \in task :
        ( /\ t1.step_id = t2.step_id
          /\ t1.input_resource_id = t2.input_resource_id
          /\ t1.input_resource_id # NULL ) => t1 = t2

\* a CreateTask for a pair that has a row was refused, beside other rows
C1_Witness ==
    /\ lastOp.op = "CreateTask"
    /\ lastOp.ret = Failed
    /\ Cardinality(task) >= 2

(* C2: a ScheduleTasksForStep(s) that directly follows a successful        *)
(* ScheduleTasksForStep(s) returns 0 and leaves the task table unchanged.  *)
C2_ScheduleIdempotent ==
    [][ \A s \in StepIds :
          ( /\ lastOp.op = "ScheduleTasksForStep"
            /\ lastOp.step = s
            /\ lastOp.ret # Failed
            /\ lastOp'.op = "ScheduleTasksForStep"
            /\ lastOp'.step = s )
          => (lastOp'.ret = 0 /\ task' = task) ]_vars

\* the second of two calls in a row returned 0 where the first one had
\* scheduled a task that is still there
C2_Witness ==
    /\ lastOp.op = "ScheduleTasksForStep"
    /\ lastOp.again
    /\ lastOp.ret = 0
    /\ \E t \in task : t.step_id = lastOp.step /\ t.input_resource_id # NULL

(* C3: ScheduleTasksForStep(s) inserts exactly one unprocessed, error-free *)
(* task (s, r) for every resource r named in the inputs of s that has no   *)
(* task of s, inserts no other row, returns the number of rows inserted    *)
(* and leaves every existing row as it was; afterwards no resource of an   *)
(* input name is unconsumed by s.                                          *)
C3_ScheduleInsertsExactly ==
    [][ \A s \in StepIds :
          (lastOp'.op = "ScheduleTasksForStep" /\ lastOp'.step = s) =>
          LET inputs == Range(GetStep(s).inputs)
              new == task' \ task
              due(r) == /\ r.name \in inputs
                        /\ ~ \E t \in task : t.step_id = s /\ t.input_resource_id = r.id
          IN /\ task \subseteq task'
             /\ \A r \in resource :
                    Cardinality({t \in new : t.input_resource_id = r.id}) = IF due(r) THEN 1 ELSE 0
             /\ \A t \in new :
                    /\ t.step_id = s
                    /\ t.processed = FALSE
                    /\ t.error = NoError
                    /\ \E r \in resource : r.id = t.input_resource_id
             /\ lastOp'.ret = Cardinality(new)
             /\ \A n \in inputs : GetUnconsumedResourcesByName(n, s)' = {} ]_vars

\* a call scheduled a task beside a processed row, with a resource in the
\* table that no step takes
C3_Witness ==
    /\ lastOp.op = "ScheduleTasksForStep"
    /\ lastOp.ret >= 1
    /\ \E t \in task : t.processed
    /\ \E r \in resource : r.name = nX

----------------------------------------------------------------------------
(* SpecIngest: resource ingestion.  MakeResourceConsumer runs hash         *)
(* workers, store workers and DB workers over three channels;              *)
(* CreateResourceFromReader is the sequential path.                        *)

\* strings.Split(name, sep)[0]: the part of name before the first sep
SplitFirst(name, sep) ==
    LET idx == {i \in 1..Len(name) : name[i] = sep}
    IN IF idx = {} THEN name
       ELSE SubSeq(name, 1, (CHOOSE i \in idx : \A j \in idx : i <= j) - 1)

FileData(name, data) == [Name |-> name, data |-> data]

\* the files the scripts emit: two files of one logical name with the same
\* bytes, the same bytes under another name, other bytes under the first name
Emissions ==
    { FileData(<<"b", "_", "1">>, <<1>>), FileData(<<"b", "_", "2">>, <<1>>),
      FileData(<<"c">>, <<1>>), FileData(<<"b", "_", "1">>, <<2>>) }

\* Database.ObjectExists
ObjectExists(hash) == \E o \in objects : o.hash = hash

\* Database.StoreObject when the write batch flushes
StoreObject(hash, data) == objects \cup {[hash |-> hash, data |-> data]}

InitIngest ==
    /\ InitDB
    /\ InitNoConsumer
    /\ InitNoRun
    /\ InitNoStep

\* a script's file reaches outputChan (capacity 100, never full here)
Emit ==
    /\ emitted < MaxEmissions
    /\ \E fd \in Emissions : outputChan' = Append(outputChan, fd)
    /\ emitted' = emitted + 1
    /\ UNCHANGED <<dbVars, storeChan, dbJobChan, dbWorker, returned>>
    /\ UNCHANGED notIngest

\* a hash worker: derive the resource name, hash the bytes, enqueue the
\* store job and the DB job
HashWorker ==
    /\ outputChan # <<>>
    /\ LET fd == Head(outputChan)
           resourceName == SplitFirst(fd.Name, "_")
           hash == SHA256(fd.data)
       IN /\ storeChan' = Append(storeChan, [hash |-> hash, data |-> fd.data, name |-> fd.Name])
          /\ dbJobChan' = Append(dbJobChan, [name |-> resourceName, hash |-> hash])
    /\ outputChan' = Tail(outputChan)
    /\ UNCHANGED <<dbVars, dbWorker, returned, emitted>>
    /\ UNCHANGED notIngest

\* a store worker: StoreObject unless the object exists; an error of
\* StoreObject is logged and nothing else
StoreWorker ==
    /\ storeChan # <<>>
    /\ LET s == Head(storeChan)
       IN IF ObjectExists(s.hash)
          THEN UNCHANGED objects
          ELSE \/ objects' = StoreObject(s.hash, s.data)
               \/ UNCHANGED objects
    /\ storeChan' = Tail(storeChan)
    /\ UNCHANGED <<step, resource, task, seqResource, seqTask, lastOp,
                   outputChan, dbJobChan, dbWorker, returned, emitted>>
    /\ UNCHANGED notIngest

\* a DB worker takes a job and runs the INSERT of CreateResource
DbWorkerInsert(w) ==
    /\ dbWorker[w] = Idle
    /\ dbJobChan # <<>>
    /\ LET j == Head(dbJobChan)
       IN /\ ResourceUniqueConflict(j.name, j.hash) \/ seqResource < MaxResources
          /\ resource' = CreateResourceRows(j.name, j.hash)
          /\ seqResource' = IF ResourceUniqueConflict(j.name, j.hash)
                            THEN seqResource ELSE seqResource + 1
          /\ dbWorker' = [dbWorker EXCEPT ![w] = [pc |-> "select", name |-> j.name, hash |-> j.hash]]
    /\ dbJobChan' = Tail(dbJobChan)
    /\ UNCHANGED <<step, task, seqTask, objects, lastOp,
                   outputChan, storeChan, returned, emitted>>
    /\ UNCHANGED notIngest

\* the result of SELECT id ... LIMIT 1 and of the Scan into id
SelectResourceId(name, hash) ==
    IF \E r \in resource : r.name = name /\ r.object_hash = hash
    THEN [name |-> name, hash |-> hash, id |-> ResourceId(resource, name, hash), err |-> NoError]
    ELSE [name |-> name, hash |-> hash, id |-> 0, err |-> "sql: no rows in result set"]

\* the DB worker runs the SELECT of CreateResource and returns
DbWorkerSelect(w) ==
    /\ dbWorker[w].pc = "select"
    /\ returned' = returned \cup {SelectResourceId(dbWorker[w].name, dbWorker[w].hash)}
    /\ dbWorker' = [dbWorker EXCEPT ![w] = Idle]
    /\ UNCHANGED <<dbVars, outputChan, storeChan, dbJobChan, emitted>>
    /\ UNCHANGED notIngest

\* Database.CreateResourceFromReader, called from one goroutine: the object
\* is stored first, and a failed store returns before any row is written
CreateResourceFromReader(name, data) ==
    LET hash == SHA256(data)
        rows == CreateResourceRows(name, hash)
    IN /\ emitted < MaxEmissions
       /\ emitted' = emitted + 1
       /\ \/ /\ ~ObjectExists(hash)
             /\ UNCHANGED <<resource, seqResource, objects, returned>>
          \/ /\ ResourceUniqueConflict(name, hash) \/ seqResource < MaxResources
             /\ objects' = IF ObjectExists(hash) THEN objects ELSE StoreObject(hash, data)
             /\ resource' = rows
             /\ seqResource' = IF ResourceUniqueConflict(name, hash)
                               THEN seqResource ELSE seqResource + 1
             /\ returned' = returned \cup
                  {[name |-> name, hash |-> hash, id |-> ResourceId(rows, name, hash), err |-> NoError]}
       /\ UNCHANGED <<step, task, seqTask, lastOp, outputChan, storeChan, dbJobChan, dbWorker>>
       /\ UNCHANGED notIngest

IngestFromReader == \E fd \in Emissions : CreateResourceFromReader(fd.Name, fd.data)

NextIngest ==
    \/ Emit
    \/ HashWorker
    \/ StoreWorker
    \/ \E w \in 1..NumCPU : DbWorkerInsert(w)
    \/ \E w \in 1..NumCPU : DbWorkerSelect(w)
    \/ IngestFromReader

SpecIngest == InitIngest /\ [][NextIngest]_vars

(* C6: every resource row has its blob in the object store, in every      *)
(* reachable state, also while the ingestion workers run and when a blob   *)
(* write fails.  MakeResourceConsumer hands the store job and the DB job   *)
(* to separate workers, so the row can be written before the blob, and a   *)
(* failed StoreObject is only logged: the row then stays without a blob.   *)
C6_EveryRowHasBlob ==
    \A r \in resource : ObjectExists(r.object_hash)

----------------------------------------------------------------------------
(* SpecRun: the run command.  run registers the steps and calls            *)
(* Pipeline.Execute until a pass executes nothing; Execute seeds the start *)
(* step and runs ExecuteStep on every enabled step.  The scripts are run   *)
(* by ScriptExecutor.Execute, whose OUTPUT_DIR is a temporary directory    *)
(* removed on return; files reach fuseOutputs when they are written to the *)
(* mount, and processFuseOutputs turns them into resources and tasks.      *)

\* the manifest's step names, which are the enabled steps of the pipeline
ManifestNames == {nA, nB}

\* the three versions of Pipeline.Seed
Builds == {"part_007", "pipeline.go:281", "pipeline.go:616"}

\* the newest of a set of step rows (ORDER BY version DESC LIMIT 1)
Latest(rows) == CHOOSE r \in rows : \A q \in rows : q.version <= r.version

\* Database.CreateStep on the table tbl
CreateStepRows(tbl, s) ==
    LET same == {r \in tbl : r.name = s.name /\ r.script = s.script}
        named == {r \in tbl : r.name = s.name}
    IN IF same # {} /\ Latest(same).inputs = s.inputs
       THEN (tbl \ {Latest(same)}) \cup
            {[Latest(same) EXCEPT !.parallel = s.parallel, !.is_start = s.is_start]}
       ELSE tbl \cup
            {[id |-> Max({0} \cup {r.id : r \in tbl}) + 1, name |-> s.name, script |-> s.script,
              is_start |-> s.is_start, parallel |-> s.parallel, inputs |-> s.inputs,
              version |-> Max({0} \cup {r.version : r \in named}) + 1]}

RECURSIVE RegisterSteps(_, _)
RegisterSteps(tbl, ss) ==
    IF ss = <<>> THEN tbl ELSE RegisterSteps(CreateStepRows(tbl, Head(ss)), Tail(ss))

\* Database.GetStartingStep
GetStartingStep == Latest({r \in step : r.is_start})

\* Database.GetStepByName: the set holding the newest row of that name, if any
GetStepByName(name) ==
    LET named == {r \in step : r.name = name}
    IN IF named = {} THEN {} ELSE {Latest(named)}

\* the id Database.CreateStep returns: the id of the row it updated, or
\* the id of the row it inserted
CreateStepID(tbl, s) ==
    LET same == {r \in tbl : r.name = s.name /\ r.script = s.script}
    IN IF same # {} /\ Latest(same).inputs = s.inputs
       THEN Latest(same).id
       ELSE Max({0} \cup {r.id : r \in tbl}) + 1

\* the order of step names in ORDER BY s1.name
NameOrder == <<nA, nB, nC, nDone, nX>>

NamePos(n) == CHOOSE i \in 1..Len(NameOrder) : NameOrder[i] = n

\* rows in the order of ORDER BY name, version
RECURSIVE OrderedSteps(_)
OrderedSteps(rows) ==
    IF rows = {} THEN <<>>
    ELSE LET first == CHOOSE r \in rows : \A q \in rows :
                         \/ NamePos(r.name) < NamePos(q.name)
                         \/ r.name = q.name /\ r.version <= q.version
         IN <<first>> \o OrderedSteps(rows \ {first})

\* the WHERE clause of GetTaintedSteps: some row of the same name has a
\* higher version and another script or other inputs
TaintedRows(tbl) ==
    { s1 \in tbl : \E s2 \in tbl :
        /\ s1.name = s2.name
        /\ s1.version < s2.version
        /\ s1.script # s2.script \/ s1.inputs # s2.inputs }

\* Database.GetTaintedSteps: what the channel yields, in its order; GROUP BY
\* s1.id leaves one row for each id
GetTaintedSteps(tbl) == OrderedSteps(TaintedRows(tbl))

\* a mistaken migration: the tasks are moved to the latest step
MigrateTaintedStepTasksMoved(tbl, rows, seq, taintedStepID) ==
    LET named == {r \in tbl : \E q \in tbl : q.id = taintedStepID /\ r.name = q.name}
    IN [rows |-> {IF t.step_id = taintedStepID
                  THEN [t EXCEPT !.step_id = Latest(named).id, !.processed = FALSE,
                                 !.error = NoError]
                  ELSE t : t \in rows},
        seq |-> seq,
        ret |-> Cardinality({t \in rows : t.step_id = taintedStepID})]

\* Database.MigrateTaintedStepTasks on the step table tbl and the task rows
\* rows, seq being the last id given out: INSERT INTO task SELECT ..., ?,
\* ..., 0, NULL FROM task WHERE step_id = ?.  The input columns of a row
\* are its input field; the task table of this schema has no UNIQUE
\* constraint.  ret is the count returned, Failed for a step not found
MigrateTaintedStepTasks(tbl, rows, seq, taintedStepID) ==
    LET named == {r \in tbl : \E q \in tbl : q.id = taintedStepID /\ r.name = q.name}
        from == {t \in rows : t.step_id = taintedStepID}
    IN IF named = {}
       THEN [rows |-> rows, seq |-> seq, ret |-> Failed]
       ELSE [rows |-> rows \cup
                      { TaskRow(seq + Rank(t.id, {q.id : q \in from}), Latest(named).id,
                                t.input_resource_id, FALSE, NoError) : t \in from },
             seq |-> seq + Cardinality(from),
             ret |-> Cardinality(from)]

\* run's loop over GetTaintedSteps: MigrateTaintedStepTasks for each step
\* the channel yields
RECURSIVE MigrateEach(_, _, _, _)
MigrateEach(tbl, rows, seq, steps) ==
    IF steps = <<>> THEN [rows |-> rows, seq |-> seq]
    ELSE LET out == MigrateTaintedStepTasks(tbl, rows, seq, Head(steps).id)
         IN MigrateEach(tbl, out.rows, out.seq, Tail(steps))

\* Database.GetUnprocessedTasks
GetUnprocessedTasks(stepID) == {t \in task : t.step_id = stepID /\ ~t.processed}

\* extractStepName: cut from the last ".", then keep what precedes the first "_"
ExtractStepName(filename) ==
    LET dots == {i \in 1..Len(filename) : filename[i] = "."}
        base == IF dots = {} THEN filename ELSE SubSeq(filename, 1, Max(dots) - 1)
    IN SplitFirst(base, "_")

\* executor.Execute runs the script of each task of ids once more
Spawn(ids) == spawned' = spawned (+) SetToBag(ids)

\* a mistaken ExecuteTask: the row is not set processed
ExecuteTasksNotMarked(rows, ids) == rows

\* Pipeline.ExecuteTask on each task of ids: the script runs, then
\* UpdateTaskStatus(id, true, errorMsg)
ExecuteTasks(rows, ids) ==
    { IF t.id \in ids
      THEN [t EXCEPT !.processed = TRUE, !.error = ScriptError(t.step_id)]
      ELSE t : t \in rows }

InitRun ==
    /\ step = {}
    /\ resource = {}
    /\ task = {}
    /\ seqResource = 0
    /\ seqTask = 0
    /\ objects = {}
    /\ lastOp = [op |-> "NewDatabase", step |-> NULL, ret |-> 0, again |-> FALSE]
    /\ InitNoConsumer
    /\ build \in Builds
    /\ manifest = RunSteps
    /\ chan = NoChan
    /\ outputWatcher = NoWatcher
    /\ pool = NoConn
    /\ runPc = "idle"
    /\ stepsLeft = {}
    /\ numberOfExecutions = 0
    /\ executed = {}
    /\ ranBefore = FALSE
    /\ passOrder = <<>>
    /\ spawned = EmptyBag
    /\ rerunTerminal = FALSE
    /\ InitNoStep

\* run, up to the first Execute: CreateStep for "done" and for every step
\* of the manifest, then MigrateTaintedStepTasks for every step that
\* GetTaintedSteps yields
RunStart ==
    LET tbl == RegisterSteps(step, manifest)
        out == MigrateEach(tbl, task, seqTask, GetTaintedSteps(tbl))
    IN /\ runPc = "idle"
       /\ out.seq <= MaxRows
       /\ step' = tbl
       /\ task' = out.rows
       /\ seqTask' = out.seq
       /\ runPc' = "seed"
       /\ rerunTerminal' = (ranBefore /\ \A t \in task : t.processed)
       /\ outputChan' = <<>>
       /\ UNCHANGED <<resource, seqResource, objects, lastOp, emitted,
                      build, manifest, chan, outputWatcher, pool, stepsLeft, numberOfExecutions, executed, ranBefore,
                      passOrder, spawned>>
       /\ UNCHANGED notRun

\* the seed task of part_007: the first unprocessed task of the start
\* step, or else a new task without input; it is executed, not counted
SeedPart007 ==
    LET un == GetUnprocessedTasks(GetStartingStep.id)
        first == CHOOSE t \in un : \A q \in un : t.id <= q.id
        new == TaskRow(seqTask + 1, GetStartingStep.id, NULL, FALSE, NoError)
    IN /\ build = "part_007"
       /\ IF un # {}
          THEN /\ task' = ExecuteTasks(task, {first.id})
               /\ executed' = executed \cup {first.id}
               /\ Spawn({first.id})
               /\ UNCHANGED seqTask
          ELSE /\ seqTask < MaxTasks
               /\ task' = ExecuteTasks(task \cup {new}, {new.id})
               /\ executed' = executed \cup {new.id}
               /\ Spawn({new.id})
               /\ seqTask' = seqTask + 1
       /\ numberOfExecutions' = 0

\* pipeline.go:281: the unprocessed tasks of the start step if some task
\* is processed, a new task if the step has none; Execute runs and counts them
SeedPipeline281 ==
    LET all == {t \in task : t.step_id = GetStartingStep.id}
        un == GetUnprocessedTasks(GetStartingStep.id)
        new == TaskRow(seqTask + 1, GetStartingStep.id, NULL, FALSE, NoError)
    IN /\ build = "pipeline.go:281"
       /\ IF Cardinality(un) < Cardinality(all)
          THEN /\ task' = ExecuteTasks(task, {t.id : t \in un})
               /\ executed' = executed \cup {t.id : t \in un}
               /\ Spawn({t.id : t \in un})
               /\ numberOfExecutions' = Cardinality(un)
               /\ UNCHANGED seqTask
          ELSE IF all = {}
          THEN /\ seqTask < MaxTasks
               /\ task' = ExecuteTasks(task \cup {new}, {new.id})
               /\ executed' = executed \cup {new.id}
               /\ Spawn({new.id})
               /\ seqTask' = seqTask + 1
               /\ numberOfExecutions' = 1
          ELSE /\ numberOfExecutions' = 0
               /\ UNCHANGED <<task, executed, seqTask, spawned>>

\* pipeline.go:616: a new task, executed at once, unless some task of the
\* start step is processed
SeedPipeline616 ==
    LET done == {t \in task : t.step_id = GetStartingStep.id /\ t.processed}
        new == TaskRow(seqTask + 1, GetStartingStep.id, NULL, FALSE, NoError)
    IN /\ build = "pipeline.go:616"
       /\ IF done = {}
          THEN /\ seqTask < MaxTasks
               /\ task' = ExecuteTasks(task \cup {new}, {new.id})
               /\ executed' = executed \cup {new.id}
               /\ Spawn({new.id})
               /\ seqTask' = seqTask + 1
          ELSE UNCHANGED <<task, executed, seqTask, spawned>>
       /\ numberOfExecutions' = 0

\* the steps Execute goes through: Execute of pipeline.go:30 takes the rows
\* of ListSteps whose id is the id of an enabled step, which run got from
\* CreateStep; the other versions take the rows whose name is the name of
\* an enabled step
EnabledStepIds ==
    IF build = "pipeline.go:281"
    THEN {CreateStepID(step, manifest[i]) :
              i \in {j \in DOMAIN manifest : manifest[j].name \in ManifestNames}}
    ELSE {r.id : r \in {q \in step : q.name \in ManifestNames}}

\* Pipeline.Execute up to its loop over stepsIndex: build the index of the
\* enabled steps and Seed
Seed ==
    /\ runPc = "seed"
    /\ SeedPart007 \/ SeedPipeline281 \/ SeedPipeline616
    /\ stepsLeft' = EnabledStepIds
    /\ passOrder' = <<>>
    /\ runPc' = "steps"
    /\ UNCHANGED <<step, resource, seqResource, objects, lastOp, outputChan, emitted,
                   build, manifest, chan, outputWatcher, pool, ranBefore, rerunTerminal>>
    /\ UNCHANGED notRun

\* Pipeline.ExecuteStep: the unprocessed tasks of the step are collected
\* once, then each is executed and counted.  Execute of pipeline.go:30
\* ranges over the list of ListSteps (ORDER BY id), the other versions
\* over the map stepsIndex, whose iteration order Go leaves open
ExecuteStep(s) ==
    LET un == GetUnprocessedTasks(s)
    IN /\ runPc = "steps"
       /\ s \in stepsLeft
       /\ build = "pipeline.go:281" => s = Min(stepsLeft)
       /\ passOrder' = Append(passOrder, s)
       /\ task' = ExecuteTasks(task, {t.id : t \in un})
       /\ executed' = executed \cup {t.id : t \in un}
       /\ Spawn({t.id : t \in un})
       /\ numberOfExecutions' = numberOfExecutions + Cardinality(un)
       /\ stepsLeft' = stepsLeft \ {s}
       /\ UNCHANGED <<step, resource, seqResource, seqTask, objects, lastOp, outputChan,
                      emitted, build, manifest, chan, outputWatcher, pool, runPc, ranBefore, rerunTerminal>>
       /\ UNCHANGED notRun

\* Execute returns its count to run: another pass if it is positive
ExecuteReturnsPositive ==
    /\ runPc = "steps"
    /\ stepsLeft = {}
    /\ numberOfExecutions > 0
    /\ runPc' = "seed"
    /\ UNCHANGED <<dbVars, outputChan, emitted, build, manifest, chan, outputWatcher, pool, stepsLeft, numberOfExecutions,
                   executed, ranBefore, passOrder, spawned, rerunTerminal>>
    /\ UNCHANGED notRun

\* Execute returns 0: run returns and the process exits, with the files
\* still in fuseOutputs
ExecuteReturnsZero ==
    /\ runPc = "steps"
    /\ stepsLeft = {}
    /\ numberOfExecutions = 0
    /\ runPc' = "idle"
    /\ ranBefore' = TRUE
    /\ rerunTerminal' = FALSE
    /\ outputChan' = <<>>
    /\ UNCHANGED <<dbVars, emitted, build, manifest, chan, outputWatcher, pool, stepsLeft, numberOfExecutions, executed, passOrder,
                   spawned>>
    /\ UNCHANGED notRun

\* a file written to the mount is released while the pipeline runs
\* (fuseOutputs has capacity 10, never reached here)
FuseRelease ==
    /\ runPc # "idle"
    /\ emitted < MaxEmissions
    /\ \E fd \in Emissions : outputChan' = Append(outputChan, fd)
    /\ emitted' = emitted + 1
    /\ rerunTerminal' = FALSE
    /\ UNCHANGED <<dbVars, build, manifest, chan, outputWatcher, pool, runPc, stepsLeft, numberOfExecutions, executed, ranBefore,
                   passOrder, spawned>>
    /\ UNCHANGED notRun

\* one iteration of processFuseOutputs: find the step named by the file,
\* CreateResourceFromReader, CreateTask; every failure is logged and the
\* file dropped
ProcessFuseOutputs ==
    /\ outputChan # <<>>
    /\ outputChan' = Tail(outputChan)
    /\ LET fd == Head(outputChan)
           next == GetStepByName(ExtractStepName(fd.Name))
           hash == SHA256(fd.data)
           rows == CreateResourceRows(fd.Name, hash)
           rid == ResourceId(rows, fd.Name, hash)
       IN IF next = {}
          THEN UNCHANGED <<resource, seqResource, objects, task, seqTask>>
          ELSE \/ /\ ~ObjectExists(hash)
                  /\ UNCHANGED <<resource, seqResource, objects, task, seqTask>>
               \/ /\ ResourceUniqueConflict(fd.Name, hash) \/ seqResource < MaxResources
                  /\ objects' = IF ObjectExists(hash) THEN objects ELSE StoreObject(hash, fd.data)
                  /\ resource' = rows
                  /\ seqResource' = IF ResourceUniqueConflict(fd.Name, hash)
                                    THEN seqResource ELSE seqResource + 1
                  /\ \E n \in next :
                       IF TaskUniqueConflict(n.id, rid)
                       THEN UNCHANGED <<task, seqTask>>
                       ELSE /\ seqTask < MaxTasks
                            /\ task' = task \cup {TaskRow(seqTask + 1, n.id, rid, FALSE, NoError)}
                            /\ seqTask' = seqTask + 1
    /\ UNCHANGED <<step, lastOp, emitted, runVars>>
    /\ UNCHANGED notRun

NextRun ==
    \/ RunStart
    \/ Seed
    \/ \E s \in StepIds : ExecuteStep(s)
    \/ ExecuteReturnsPositive
    \/ ExecuteReturnsZero
    \/ FuseRelease
    \/ ProcessFuseOutputs

SpecRun == InitRun /\ [][NextRun]_vars

(* C4: a seed task (no input resource) is created only for the start step  *)
(* and only when the step has no task, so that after any number of Execute *)
(* passes and runs a step has at most one task without input.  Seed of     *)
(* part_007 creates one whenever the start step has no unprocessed task.   *)
C4_AtMostOneSeed ==
    \A s \in StepIds :
        Cardinality({t \in task : t.step_id = s /\ t.input_resource_id = NULL}) <= 1

(* C5: a run started on a terminal pipeline creates no task row, no        *)
(* resource row and executes no script.  Seed of part_007 finds no         *)
(* unprocessed task of the start step, creates one and executes it.        *)
C5_RerunDoesNothing ==
    [][ rerunTerminal =>
          (task' = task /\ resource' = resource /\ executed' = executed) ]_vars

----------------------------------------------------------------------------
(* SpecStep: Pipeline.ExecuteStep of part_006 on the start step: a         *)
(* FuseWatcher and an ingestion goroutine per step, the scripts of the     *)
(* collected tasks, Release of the files they write, and the cleanup       *)
(* (Stop, close(fuseOutputs), wait for the ingestion goroutine).           *)

FileNames == {fd.Name : fd \in Emissions}

\* ExecuteStep was entered for the start step, whose seed task is unprocessed
InitStep ==
    /\ step = RegisterSteps({}, RunSteps)
    /\ resource = {}
    /\ task = {TaskRow(1, Latest({r \in RegisterSteps({}, RunSteps) : r.is_start}).id,
                       NULL, FALSE, NoError)}
    /\ seqResource = 0
    /\ seqTask = 1
    /\ objects = {}
    /\ lastOp = [op |-> "NewDatabase", step |-> NULL, ret |-> 0, again |-> FALSE]
    /\ InitNoConsumer
    /\ InitNoRun
    /\ outputDir \in {"mount", "tmp"}
    /\ stepPc = "running"
    /\ closed = FALSE
    /\ handles = {}
    /\ files = {}
    /\ written = {}
    /\ queue = {1}
    /\ running = {}
    /\ InitNoPar

\* a worker takes a collected task and ExecuteTask starts its script
StartTask(t) ==
    /\ stepPc = "running"
    /\ t \in queue
    /\ queue' = queue \ {t}
    /\ running' = running \cup {t}
    /\ Spawn({t})
    /\ UNCHANGED <<dbVars, outputChan, emitted, outputDir, stepPc, closed, handles, files, written>>
    /\ UNCHANGED <<storeChan, dbJobChan, dbWorker, returned, parVars,
                   build, manifest, chan, outputWatcher, pool, runPc, stepsLeft, numberOfExecutions, executed, ranBefore, passOrder,
                   rerunTerminal>>

\* ScriptExecutor.Execute of src/executor.go: OUTPUT_DIR is a temporary
\* directory, removed on return; the script writes and closes a file there
ScriptWriteTmp(t) ==
    /\ outputDir = "tmp"
    /\ t \in running
    /\ emitted < MaxEmissions
    /\ \E fd \in Emissions :
          written' = written \cup
              {[task |-> t, Name |-> fd.Name, data |-> fd.data, how |-> "tmp", inTask |-> TRUE]}
    /\ emitted' = emitted + 1
    /\ UNCHANGED <<dbVars, outputChan, outputDir, stepPc, closed, handles, files, queue, running>>
    /\ UNCHANGED notStep

\* fuseFS.Create by a running script whose OUTPUT_DIR is the mount
ScriptCreate(t) ==
    /\ outputDir = "mount"
    /\ t \in running
    /\ ~closed
    /\ emitted < MaxEmissions
    /\ \E n \in FileNames :
          /\ handles' = handles \cup
              {[h |-> emitted + 1, task |-> t, name |-> n, content |-> <<>>, pc |-> "open"]}
          /\ files' = files \cup {n}
    /\ emitted' = emitted + 1
    /\ UNCHANGED <<dbVars, outputChan, outputDir, stepPc, closed, written, queue, running>>
    /\ UNCHANGED notStep

\* fuseFile.Write at offset 0 on an empty file
ScriptWrite(h) ==
    /\ h \in handles
    /\ h.pc = "open"
    /\ h.content = <<>>
    /\ \E d \in Payloads : handles' = (handles \ {h}) \cup {[h EXCEPT !.content = d]}
    /\ UNCHANGED <<dbVars, outputChan, emitted, outputDir, stepPc, closed, files, written, queue, running>>
    /\ UNCHANGED notStep

\* fuseFile.Release up to its send: an empty file and a file of a closed
\* watcher are not sent
ReleaseBegin(h) ==
    /\ h \in handles
    /\ h.pc = "open"
    /\ IF h.content = <<>>
       THEN /\ handles' = handles \ {h}
            /\ UNCHANGED written
       ELSE IF closed
       THEN /\ handles' = handles \ {h}
            /\ written' = written \cup
                 {[task |-> h.task, Name |-> h.name, data |-> h.content, how |-> "dropped",
                   inTask |-> h.task \in running]}
       ELSE /\ handles' = (handles \ {h}) \cup {[h EXCEPT !.pc = "send"]}
            /\ UNCHANGED written
    /\ UNCHANGED <<dbVars, outputChan, emitted, outputDir, stepPc, closed, files, queue, running>>
    /\ UNCHANGED notStep

\* the send of Release is accepted by fuseOutputs; Release returns
ReleaseSend(h) ==
    /\ h \in handles
    /\ h.pc = "send"
    /\ stepPc # "panic"
    /\ Len(outputChan) < ChanCap
    /\ outputChan' = Append(outputChan, FileData(h.name, h.content))
    /\ handles' = handles \ {h}
    /\ written' = written \cup
          {[task |-> h.task, Name |-> h.name, data |-> h.content, how |-> "sent",
            inTask |-> h.task \in running]}
    /\ UNCHANGED <<dbVars, emitted, outputDir, stepPc, closed, files, queue, running>>
    /\ UNCHANGED notStep

\* the script's shell exits and ExecuteTask marks the task processed; a
\* file may be open still (Stop waits for those)
TaskDone(t) ==
    /\ t \in running
    /\ task' = ExecuteTasks(task, {t})
    /\ executed' = executed \cup {t}
    /\ running' = running \ {t}
    /\ UNCHANGED <<step, resource, seqResource, seqTask, objects, lastOp, outputChan, emitted,
                   outputDir, stepPc, closed, handles, files, written, queue>>
    /\ UNCHANGED <<storeChan, dbJobChan, dbWorker, returned, parVars,
                   build, manifest, chan, outputWatcher, pool, runPc, stepsLeft, numberOfExecutions, ranBefore, passOrder, spawned,
                   rerunTerminal>>

\* the workers are done; the deferred cleanup calls Stop, which sets closed
StopBegin ==
    /\ stepPc = "running"
    /\ queue = {}
    /\ running = {}
    /\ closed' = TRUE
    /\ stepPc' = "stopping"
    /\ UNCHANGED <<dbVars, outputChan, emitted, outputDir, handles, files, written, queue, running>>
    /\ UNCHANGED notStep

\* Stop: the open files are all released or the 2 s are over; unmount,
\* then close(fuseOutputs), on which a Release blocked in its send panics
StopUnmount ==
    /\ stepPc = "stopping"
    /\ IF \E h \in handles : h.pc = "send"
       THEN /\ stepPc' = "panic"
            /\ outputChan' = <<>>
       ELSE /\ stepPc' = "draining"
            /\ UNCHANGED outputChan
    /\ UNCHANGED <<dbVars, emitted, outputDir, closed, handles, files, written, queue, running>>
    /\ UNCHANGED notStep

\* outputsWg.Wait() returns when the ingestion goroutine has drained the
\* channel; ExecuteStep returns
StepReturn ==
    /\ stepPc = "draining"
    /\ outputChan = <<>>
    /\ stepPc' = "returned"
    /\ UNCHANGED <<dbVars, outputChan, emitted, outputDir, closed, handles, files, written, queue, running>>
    /\ UNCHANGED notStep

NextStep ==
    \/ \E t \in queue : StartTask(t)
    \/ \E t \in running : ScriptWriteTmp(t)
    \/ \E t \in running : ScriptCreate(t)
    \/ \E h \in handles : ScriptWrite(h)
    \/ \E h \in handles : ReleaseBegin(h)
    \/ \E h \in handles : ReleaseSend(h)
    \/ \E t \in running : TaskDone(t)
    \/ StopBegin
    \/ StopUnmount
    \/ StepReturn
    \/ ProcessFuseOutputs

SpecStep == InitStep /\ [][NextStep]_vars

(* C8: when a task is marked processed, every file its script wrote into   *)
(* OUTPUT_DIR and closed while it ran has its resource row (named by the   *)
(* file or by its logical name, with the SHA-256 of the bytes) and its     *)
(* blob.  The task is                                                     *)
(* marked as soon as the script exits, while the file can still wait in    *)
(* fuseOutputs, can be dropped by the ingestion goroutine, or was written  *)
(* to the temporary directory of src/executor.go.                          *)
C8_ClosedFileIsResource ==
    \A f \in written :
        (f.inTask /\ \E t \in task : t.id = f.task /\ t.processed) =>
            /\ \E r \in resource :
                  /\ r.name \in {f.Name, ExtractStepName(f.Name)}
                  /\ r.object_hash = SHA256(f.data)
            /\ [hash |-> SHA256(f.data), data |-> f.data] \in objects

(* C10: a Release of a non-empty file returns only once fuseOutputs has    *)
(* accepted its emission, and at most ChanCap emissions wait in the        *)
(* channel.  Release returns without sending when the watcher is closed.   *)
C10_Backpressure ==
    /\ \A f \in written : f.how # "dropped"
    /\ Len(outputChan) <= ChanCap

----------------------------------------------------------------------------
(* SpecPar: the workers of one step.  In part_006 ExecuteStep hands the    *)
(* collected tasks to workers.Parallel0 with *par goroutines.  In run.go   *)
(* the -parallel flag starts that many workers on the jobs channel and a   *)
(* step with a parallel value has a semaphore of that capacity, acquired   *)
(* before the script starts.                                               *)

Archs == {"part_006", "run.go"}

\* the manifest of RunSteps in which step b has the parallel value p
ParSteps(p) == [RunSteps EXCEPT ![3].parallel = p]

\* the step whose tasks are executed
ParStep == Latest({r \in step : r.name = nB})

\* a mistaken par: the step's own value is ignored
ParGlobalOnly(s, max) == max

\* par := s.Parallel; if par == nil { par = &maxParallel }
Par(s, max) == IF s.parallel = NoParallel THEN max ELSE s.parallel

\* the worker goroutines that are started
NumWorkers == IF arch = "part_006" THEN Par(ParStep, maxParallel) ELSE maxParallel

\* the workers whose script is running; in run.go each holds a slot of the
\* step's semaphore
AtScript == {w \in 1..MaxPar : worker[w].pc = "run"}

InitPar ==
    /\ \E p \in {NoParallel} \cup (0..MaxPar) : step = RegisterSteps({}, ParSteps(p))
    /\ resource = {[id |-> i, name |-> nB, object_hash |-> SHA256(<<i>>)] : i \in 1..NumCollected}
    /\ objects = {[hash |-> SHA256(<<i>>), data |-> <<i>>] : i \in 1..NumCollected}
    /\ task = {TaskRow(i, ParStep.id, i, FALSE, NoError) : i \in 1..NumCollected}
    /\ seqResource = NumCollected
    /\ seqTask = NumCollected
    /\ lastOp = [op |-> "NewDatabase", step |-> NULL, ret |-> 0, again |-> FALSE]
    /\ InitNoConsumer
    /\ InitNoRun
    /\ outputDir = "mount"
    /\ stepPc = "running"
    /\ closed = FALSE
    /\ handles = {}
    /\ files = {}
    /\ written = {}
    /\ queue = 1..NumCollected
    /\ running = {}
    /\ arch \in Archs
    /\ maxParallel \in 0..MaxPar
    /\ worker = [w \in 1..MaxPar |-> Idle]

\* what the workers of a step leave unchanged
notPar == <<step, resource, seqResource, seqTask, objects, lastOp, ingestVars, runPc, build, manifest, chan, outputWatcher, pool,
            stepsLeft, numberOfExecutions, ranBefore, passOrder, rerunTerminal, outputDir,
            closed,
            handles, files, written, arch, maxParallel>>

\* the script of task t starts; deriveTasks of run.go has marked the task
\* processed by then
ScriptStarts(t) ==
    /\ running' = running \cup {t}
    /\ Spawn({t})
    /\ task' = IF arch = "run.go" THEN UpdateTaskStatusRows(t, TRUE, NoError) ELSE task

\* a started worker receives the next collected task from its channel; a
\* worker of run.go then has to acquire the semaphore of a step with a
\* parallel value
Receive(w) ==
    /\ stepPc = "running"
    /\ w <= NumWorkers
    /\ worker[w] = Idle
    /\ queue # {}
    /\ LET t == Min(queue)
       IN /\ queue' = queue \ {t}
          /\ IF arch = "run.go" /\ ParStep.parallel # NoParallel
             THEN /\ worker' = [worker EXCEPT ![w] = [pc |-> "acquire", task |-> t]]
                  /\ UNCHANGED <<running, task, spawned>>
             ELSE /\ worker' = [worker EXCEPT ![w] = [pc |-> "run", task |-> t]]
                  /\ ScriptStarts(t)
    /\ UNCHANGED <<executed, stepPc>>
    /\ UNCHANGED notPar

\* sem <- struct{}{} of run.go: a slot of the step's semaphore is free
Acquire(w) ==
    /\ worker[w].pc = "acquire"
    /\ Cardinality(AtScript) < ParStep.parallel
    /\ worker' = [worker EXCEPT ![w] = [pc |-> "run", task |-> worker[w].task]]
    /\ ScriptStarts(worker[w].task)
    /\ UNCHANGED <<executed, stepPc, queue>>
    /\ UNCHANGED notPar

\* the script exits; ExecuteTask of part_006 marks the task processed, the
\* worker of run.go releases its slot
Finish(w) ==
    /\ worker[w].pc = "run"
    /\ executed' = executed \cup {worker[w].task}
    /\ running' = running \ {worker[w].task}
    /\ task' = IF arch = "part_006" THEN ExecuteTasks(task, {worker[w].task}) ELSE task
    /\ worker' = [worker EXCEPT ![w] = Idle]
    /\ UNCHANGED <<stepPc, queue, spawned>>
    /\ UNCHANGED notPar

\* the channel is closed and drained, the workers return and so does
\* Parallel0 (wg.Wait of run.go); with no worker started, Parallel0 has
\* nothing to wait for, while run.go stays blocked in its send on jobs
WorkersReturn ==
    /\ stepPc = "running"
    /\ \A w \in 1..MaxPar : worker[w] = Idle
    /\ queue = {} \/ (arch = "part_006" /\ NumWorkers = 0)
    /\ stepPc' = "returned"
    /\ UNCHANGED <<task, executed, running, queue, worker, spawned>>
    /\ UNCHANGED notPar

NextPar ==
    \/ \E w \in 1..MaxPar : Receive(w)
    \/ \E w \in 1..MaxPar : Acquire(w)
    \/ \E w \in 1..MaxPar : Finish(w)
    \/ WorkersReturn

\* the goroutines are scheduled and every script exits
SpecPar == InitPar /\ [][NextPar]_vars /\ WF_vars(NextPar)

----------------------------------------------------------------------------
\* the place of a step's name in the manifest
ManifestPosition(id) ==
    LET n == GetStep(id).name
    IN Min({i \in 1..Len(RunSteps) : RunSteps[i].name = n})

(* C11: within one pass ExecuteStep is called on the enabled steps in      *)
(* manifest order, and when it is called on a step every step executed     *)
(* before it in the pass has no unprocessed task.  Execute of part_007     *)
(* ranges over a Go map, so the order of a pass is arbitrary.              *)
C11_ManifestOrder ==
    [][ (passOrder' # passOrder /\ passOrder' # <<>>) =>
          /\ \A i \in 1..Len(passOrder) :
                /\ ManifestPosition(passOrder[i]) < ManifestPosition(passOrder'[Len(passOrder')])
                /\ GetUnprocessedTasks(passOrder[i]) = {}
      ]_vars
----------------------------------------------------------------------------
(* SpecPass: one Execute pass of part_006 over the enabled steps, with the *)
(* scripts executed one at a time.  ScriptExecutor.Execute returns nil, an *)
(* error for a script that exited non-zero, or an error for a script that  *)
(* could not be started; ExecuteTask stores it with UpdateTaskStatus.      *)

\* the values ScriptExecutor.Execute returns
ExecErrors == {NoError, "script execution failed: exit status 1",
               "failed to start script: fork/exec"}

\* the pass begins: the seed task of the start step and one task of step b
\* for each of its resources are unprocessed
InitPass ==
    /\ step = RegisterSteps({}, RunSteps)
    /\ resource = {[id |-> i, name |-> nB, object_hash |-> SHA256(<<i>>)] : i \in 1..MaxResources}
    /\ objects = {[hash |-> SHA256(<<i>>), data |-> <<i>>] : i \in 1..MaxResources}
    /\ task = {TaskRow(1, GetStartingStep.id, NULL, FALSE, NoError)}
              \cup {TaskRow(i + 1, ParStep.id, i, FALSE, NoError) : i \in 1..MaxResources}
    /\ seqResource = MaxResources
    /\ seqTask = MaxResources + 1
    /\ lastOp = [op |-> "NewDatabase", step |-> NULL, ret |-> 0, again |-> FALSE]
    /\ InitNoConsumer
    /\ build = "part_007"
    /\ manifest = RunSteps
    /\ chan = NoChan
    /\ outputWatcher = NoWatcher
    /\ pool = NoConn
    /\ runPc = "steps"
    /\ stepsLeft = {r.id : r \in {q \in step : q.name \in ManifestNames}}
    /\ numberOfExecutions = 0
    /\ executed = {}
    /\ ranBefore = FALSE
    /\ passOrder = <<>>
    /\ spawned = EmptyBag
    /\ rerunTerminal = FALSE
    /\ outputDir = "mount"
    /\ stepPc = "none"
    /\ closed = FALSE
    /\ handles = {}
    /\ files = {}
    /\ written = {}
    /\ queue = {}
    /\ running = {}
    /\ InitNoPar

\* what a pass leaves unchanged
notPass == <<step, resource, seqResource, seqTask, objects, lastOp, ingestVars, build, manifest, chan, outputWatcher, pool,
             ranBefore, rerunTerminal, outputDir, closed, handles, files, written, running,
             arch, maxParallel>>

\* Execute calls ExecuteStep on a step of stepsIndex, which collects the
\* step's unprocessed tasks
PassBeginStep(s) ==
    /\ runPc = "steps"
    /\ stepPc = "none"
    /\ s \in stepsLeft
    /\ stepsLeft' = stepsLeft \ {s}
    /\ passOrder' = Append(passOrder, s)
    /\ queue' = {t.id : t \in GetUnprocessedTasks(s)}
    /\ stepPc' = "running"
    /\ UNCHANGED <<task, executed, numberOfExecutions, runPc, worker, spawned>>
    /\ UNCHANGED notPass

\* ExecuteTask up to the return of executor.Execute
PassScript ==
    /\ stepPc = "running"
    /\ worker[1] = Idle
    /\ queue # {}
    /\ \E e \in ExecErrors :
          worker' = [worker EXCEPT ![1] = [pc |-> "ran", task |-> Min(queue), err |-> e]]
    /\ queue' = queue \ {Min(queue)}
    /\ executed' = executed \cup {Min(queue)}
    /\ Spawn({Min(queue)})
    /\ UNCHANGED <<task, numberOfExecutions, runPc, stepPc, stepsLeft, passOrder>>
    /\ UNCHANGED notPass

\* ExecuteTask: db.UpdateTaskStatus(t.ID, true, errorMsg); numberOfExecutions++
PassUpdate ==
    /\ worker[1].pc = "ran"
    /\ task' = UpdateTaskStatusRows(worker[1].task, TRUE, worker[1].err)
    /\ worker' = [worker EXCEPT ![1] = Idle]
    /\ numberOfExecutions' = numberOfExecutions + 1
    /\ UNCHANGED <<executed, queue, runPc, stepPc, stepsLeft, passOrder, spawned>>
    /\ UNCHANGED notPass

\* the tasks are all executed: ExecuteStep returns
PassEndStep ==
    /\ stepPc = "running"
    /\ queue = {}
    /\ worker[1] = Idle
    /\ stepPc' = "none"
    /\ UNCHANGED <<task, executed, numberOfExecutions, queue, runPc, stepsLeft, passOrder,
                   worker, spawned>>
    /\ UNCHANGED notPass

\* Execute returns numberOfExecutions
PassReturn ==
    /\ runPc = "steps"
    /\ stepPc = "none"
    /\ stepsLeft = {}
    /\ runPc' = "returned"
    /\ UNCHANGED <<task, executed, numberOfExecutions, queue, stepPc, stepsLeft, passOrder,
                   worker, spawned>>
    /\ UNCHANGED notPass

NextPass ==
    \/ \E s \in StepIds : PassBeginStep(s)
    \/ PassScript
    \/ PassUpdate
    \/ PassEndStep
    \/ PassReturn

\* the goroutine of the pass is scheduled and every script exits
SpecPass == InitPass /\ [][NextPass]_vars /\ WF_vars(NextPass)

(* C12: when a script exits non-zero or cannot be started, ExecuteTask     *)
(* stores the error in the task's row and sets it processed, changes no    *)
(* other task row and does not stop the pass; the remaining tasks of the   *)
(* step and the steps that follow are executed, so that the pass returns   *)
(* with every task processed.                                              *)
C12_ErrorIsolated ==
    /\ [][ (worker[1].pc = "ran" /\ worker'[1] = Idle) =>
             /\ \A r \in task' :
                   IF r.id = worker[1].task
                   THEN r.processed /\ r.error = worker[1].err
                   ELSE r \in task
             /\ {r.id : r \in task'} = {r.id : r \in task}
             /\ <<runPc, stepPc, queue, stepsLeft>>' = <<runPc, stepPc, queue, stepsLeft>>
         ]_vars
    /\ <>(runPc = "returned" /\ \A r \in task : r.processed)

\* the pass returned; the first task of step b failed, a later task of b
\* ran without error, and the start step was executed after step b
C12_Witness ==
    /\ runPc = "returned"
    /\ passOrder = <<ParStep.id, GetStartingStep.id>>
    /\ \E r \in task : r.id = 2 /\ r.processed /\ r.error \notin {NoError}
    /\ \E r \in task : r.id = 3 /\ r.processed /\ r.error = NoError
    /\ \E r \in task : r.id = 1 /\ r.processed
----------------------------------------------------------------------------
(* SpecOnce: runs of the pipeline with the workers of a step taken one     *)
(* step at a time: ExecuteStep collects the unprocessed tasks, each worker *)
(* receives a task, runs its script and marks the row; files are ingested  *)
(* meanwhile.  Execute of part_006 has no Seed.                            *)

\* a repository a run has left with the seed processed and two tasks of
\* step b that the ingestion created after the last pass
LeftoverRows == {[id |-> i, name |-> <<"b", "_", "1">>, object_hash |-> SHA256(<<i>>)] : i \in {1, 2}}

InitOnce ==
    /\ \/ /\ step = {}
          /\ resource = {}
          /\ task = {}
          /\ objects = {}
          /\ ranBefore = FALSE
       \/ /\ step = RegisterSteps({}, RunSteps)
          /\ resource = LeftoverRows
          /\ task = {TaskRow(1, GetStartingStep.id, NULL, TRUE, NoError)}
                    \cup {TaskRow(r.id + 1, ParStep.id, r.id, FALSE, NoError) : r \in LeftoverRows}
          /\ objects = {[hash |-> SHA256(<<i>>), data |-> <<i>>] : i \in {1, 2}}
          /\ ranBefore = TRUE
    /\ seqResource = Cardinality(resource)
    /\ seqTask = Cardinality(task)
    /\ lastOp = [op |-> "NewDatabase", step |-> NULL, ret |-> 0, again |-> FALSE]
    /\ InitNoConsumer
    /\ build \in Builds \cup {"part_006"}
    /\ manifest = RunSteps
    /\ chan = NoChan
    /\ outputWatcher = NoWatcher
    /\ pool = NoConn
    /\ runPc = "idle"
    /\ stepsLeft = {}
    /\ numberOfExecutions = 0
    /\ executed = {}
    /\ passOrder = <<>>
    /\ spawned = EmptyBag
    /\ rerunTerminal = FALSE
    /\ outputDir = "mount"
    /\ stepPc = "none"
    /\ closed = FALSE
    /\ handles = {}
    /\ files = {}
    /\ written = {}
    /\ queue = {}
    /\ running = {}
    /\ arch = "part_006"
    /\ maxParallel \in 1..MaxPar
    /\ worker = [w \in 1..MaxPar |-> Idle]

\* what the workers of a run leave unchanged
notOnce == <<step, resource, seqResource, seqTask, objects, lastOp, ingestVars, build, manifest, chan, outputWatcher, pool,
             ranBefore, rerunTerminal, outputDir, stepPc, closed, handles, files, written,
             arch, maxParallel>>

\* Execute of part_006: the index of the enabled steps, no Seed
OnceNoSeed ==
    /\ runPc = "seed"
    /\ build = "part_006"
    /\ stepsLeft' = {r.id : r \in {q \in step : q.name \in ManifestNames}}
    /\ passOrder' = <<>>
    /\ numberOfExecutions' = 0
    /\ runPc' = "steps"
    /\ UNCHANGED <<task, executed, spawned, queue, running, worker>>
    /\ UNCHANGED notOnce

\* ExecuteStep collects the tasks of the step that are not processed
OnceBeginStep(s) ==
    /\ runPc = "steps"
    /\ s \in stepsLeft
    /\ build = "pipeline.go:281" => s = Min(stepsLeft)
    /\ stepsLeft' = stepsLeft \ {s}
    /\ passOrder' = Append(passOrder, s)
    /\ queue' = {t.id : t \in {u \in GetUnprocessedTasks(s) : ~u.processed}}
    /\ runPc' = "step"
    /\ UNCHANGED <<task, executed, spawned, numberOfExecutions, running, worker>>
    /\ UNCHANGED notOnce

\* a worker of Parallel0 receives the next task and ExecuteTask runs its script
OnceTake(w) ==
    /\ runPc = "step"
    /\ w <= Par(GetStep(passOrder[Len(passOrder)]), maxParallel)
    /\ worker[w] = Idle
    /\ queue # {}
    /\ worker' = [worker EXCEPT ![w] = [pc |-> "run", task |-> Min(queue)]]
    /\ queue' = queue \ {Min(queue)}
    /\ running' = running \cup {Min(queue)}
    /\ Spawn({Min(queue)})
    /\ UNCHANGED <<task, executed, numberOfExecutions, runPc, stepsLeft, passOrder>>
    /\ UNCHANGED notOnce

\* the script exits: UpdateTaskStatus(t.ID, true, errorMsg), numberOfExecutions++
OnceFinish(w) ==
    /\ worker[w].pc = "run"
    /\ task' = ExecuteTasks(task, {worker[w].task})
    /\ executed' = executed \cup {worker[w].task}
    /\ running' = running \ {worker[w].task}
    /\ numberOfExecutions' = numberOfExecutions + 1
    /\ worker' = [worker EXCEPT ![w] = Idle]
    /\ UNCHANGED <<spawned, queue, runPc, stepsLeft, passOrder>>
    /\ UNCHANGED notOnce

\* the channel of tasks is drained and the workers are back: ExecuteStep returns
OnceEndStep ==
    /\ runPc = "step"
    /\ queue = {}
    /\ \A w \in 1..MaxPar : worker[w] = Idle
    /\ runPc' = "steps"
    /\ UNCHANGED <<task, executed, spawned, numberOfExecutions, queue, running, stepsLeft,
                   passOrder, worker>>
    /\ UNCHANGED notOnce

NextOnce ==
    \/ RunStart
    \/ Seed
    \/ OnceNoSeed
    \/ \E s \in StepIds : OnceBeginStep(s)
    \/ \E w \in 1..MaxPar : OnceTake(w)
    \/ \E w \in 1..MaxPar : OnceFinish(w)
    \/ OnceEndStep
    \/ ExecuteReturnsPositive
    \/ ExecuteReturnsZero
    \/ FuseRelease
    \/ ProcessFuseOutputs

SpecOnce == InitOnce /\ [][NextOnce]_vars

----------------------------------------------------------------------------
(* SpecRoute: routing by input names.  ExecuteStep of part_009 calls       *)
(* ScheduleTasksForStep and then executes the unprocessed tasks of the     *)
(* step; the goroutine of NewPipeline (part_009) receives each closed file *)
(* from the unbuffered outputChan and creates its resource; run repeats    *)
(* Execute until a pass executes nothing.  The steps are those of          *)
(* ManifestSteps: step b consumes the names b and c.                       *)

\* the seed task of the start step exists and the first pass begins
InitRoute ==
    /\ step = ManifestSteps
    /\ resource = {}
    /\ task = {TaskRow(1, GetStartingStep.id, NULL, FALSE, NoError)}
    /\ seqResource = 0
    /\ seqTask = 1
    /\ objects = {}
    /\ lastOp = [op |-> "NewDatabase", step |-> NULL, ret |-> 0, again |-> FALSE]
    /\ InitNoConsumer
    /\ build = "part_007"
    /\ manifest = RunSteps
    /\ chan = NoChan
    /\ outputWatcher = NoWatcher
    /\ pool = NoConn
    /\ runPc = "steps"
    /\ stepsLeft = StepIds
    /\ numberOfExecutions = 0
    /\ executed = {}
    /\ ranBefore = FALSE
    /\ passOrder = <<>>
    /\ spawned = EmptyBag
    /\ rerunTerminal = FALSE
    /\ InitNoStep

\* what routing leaves unchanged
notRoute == <<step, storeChan, dbJobChan, dbWorker, returned, build, manifest, chan, outputWatcher, pool, ranBefore, rerunTerminal,
              outputDir, closed, handles, files, written, running, arch, maxParallel>>

\* ExecuteStep: ScheduleTasksForStep(step.ID); on its error return 0, else
\* query the unprocessed tasks of the step
RouteBeginStep(s) ==
    /\ runPc = "steps"
    /\ stepPc = "none"
    /\ s \in stepsLeft
    /\ ScheduleTasksForStep(s)
    /\ queue' = IF lastOp'.ret = Failed
                THEN {}
                ELSE {t.id : t \in {u \in task' : u.step_id = s /\ ~u.processed}}
    /\ stepsLeft' = stepsLeft \ {s}
    /\ passOrder' = Append(passOrder, s)
    /\ stepPc' = "running"
    /\ UNCHANGED <<outputChan, emitted, runPc, numberOfExecutions, executed, spawned, worker>>
    /\ UNCHANGED notRoute

\* executor.Execute(task, step): the script of the next task starts
RouteScript ==
    /\ stepPc = "running"
    /\ worker[1] = Idle
    /\ queue # {}
    /\ worker' = [worker EXCEPT ![1] = [pc |-> "run", task |-> Min(queue)]]
    /\ queue' = queue \ {Min(queue)}
    /\ Spawn({Min(queue)})
    /\ UNCHANGED <<dbVars, outputChan, emitted, runPc, stepPc, stepsLeft, passOrder,
                   numberOfExecutions, executed>>
    /\ UNCHANGED notRoute

\* the running script closes a file: Release returns when the goroutine of
\* NewPipeline has received it from the unbuffered outputChan
RouteRelease ==
    /\ worker[1].pc = "run"
    /\ outputChan = <<>>
    /\ emitted < MaxEmissions
    /\ \E fd \in Emissions : outputChan' = <<fd>>
    /\ emitted' = emitted + 1
    /\ UNCHANGED <<dbVars, runPc, stepPc, stepsLeft, passOrder, numberOfExecutions, executed,
                   spawned, queue, worker>>
    /\ UNCHANGED notRoute

\* the goroutine of NewPipeline: db.CreateResourceFromReader(data.Name, data.Reader);
\* an error is logged and the file dropped
RouteIngest ==
    /\ runPc # "returned"
    /\ outputChan # <<>>
    /\ outputChan' = <<>>
    /\ LET fd == Head(outputChan)
           hash == SHA256(fd.data)
       IN \/ /\ ~ObjectExists(hash)
             /\ UNCHANGED <<resource, seqResource, objects>>
          \/ /\ ResourceUniqueConflict(fd.Name, hash) \/ seqResource < MaxResources
             /\ objects' = IF ObjectExists(hash) THEN objects ELSE StoreObject(hash, fd.data)
             /\ resource' = CreateResourceRows(fd.Name, hash)
             /\ seqResource' = IF ResourceUniqueConflict(fd.Name, hash)
                               THEN seqResource ELSE seqResource + 1
    /\ UNCHANGED <<task, seqTask, lastOp, emitted, runPc, stepPc, stepsLeft, passOrder,
                   numberOfExecutions, executed, spawned, queue, worker>>
    /\ UNCHANGED notRoute

\* the script exits: UpdateTaskStatus(task.ID, true, errorMsg); executionCount++
RouteFinish ==
    /\ worker[1].pc = "run"
    /\ task' = ExecuteTasks(task, {worker[1].task})
    /\ executed' = executed \cup {worker[1].task}
    /\ numberOfExecutions' = numberOfExecutions + 1
    /\ worker' = [worker EXCEPT ![1] = Idle]
    /\ UNCHANGED <<step, resource, seqResource, seqTask, objects, lastOp, outputChan, emitted,
                   runPc, stepPc, stepsLeft, passOrder, spawned, queue>>
    /\ UNCHANGED notRoute

\* the tasks of the step are executed: ExecuteStep returns executionCount
RouteEndStep ==
    /\ stepPc = "running"
    /\ queue = {}
    /\ worker[1] = Idle
    /\ stepPc' = "none"
    /\ UNCHANGED <<dbVars, outputChan, emitted, runPc, stepsLeft, passOrder, numberOfExecutions,
                   executed, spawned, queue, worker>>
    /\ UNCHANGED notRoute

\* run: the pass executed a task, Execute is called again
RouteAgain ==
    /\ runPc = "steps"
    /\ stepPc = "none"
    /\ stepsLeft = {}
    /\ numberOfExecutions > 0
    /\ stepsLeft' = StepIds
    /\ passOrder' = <<>>
    /\ numberOfExecutions' = 0
    /\ UNCHANGED <<dbVars, outputChan, emitted, runPc, stepPc, executed, spawned, queue, worker>>
    /\ UNCHANGED notRoute

\* run: the pass executed nothing, run returns
RouteReturn ==
    /\ runPc = "steps"
    /\ stepPc = "none"
    /\ stepsLeft = {}
    /\ numberOfExecutions = 0
    /\ runPc' = "returned"
    /\ UNCHANGED <<dbVars, outputChan, emitted, stepPc, stepsLeft, passOrder, numberOfExecutions,
                   executed, spawned, queue, worker>>
    /\ UNCHANGED notRoute

NextRoute ==
    \/ \E s \in StepIds : RouteBeginStep(s)
    \/ RouteScript
    \/ RouteRelease
    \/ RouteIngest
    \/ RouteFinish
    \/ RouteEndStep
    \/ RouteAgain
    \/ RouteReturn

SpecRoute == InitRoute /\ [][NextRoute]_vars

\* the newest row of each step name
CurrentSteps == {r \in step : \A q \in step : q.name = r.name => q.version <= r.version}

(* C14: when run has returned, every current step has, for every resource  *)
(* whose name is among its inputs, a task on that resource, and the task   *)
(* is processed.  The resource of a file is created by a goroutine after   *)
(* Release has returned, so it can appear after the last scheduling.       *)
C14_RoutingComplete ==
    runPc = "returned" =>
        \A s \in CurrentSteps : \A r \in resource :
            r.name \in Range(s.inputs) =>
                \E t \in task : t.step_id = s.id /\ t.input_resource_id = r.id /\ t.processed
----------------------------------------------------------------------------
(* C15: run returns, and when it has returned no enabled step has a task   *)
(* with processed = false.  This is the state run returns in; run of       *)
(* part_004 stops at the first pass that executes no task, while           *)
(* processFuseOutputs creates tasks on its own, so tasks created after     *)
(* the step's collection of a pass that executed nothing stay unprocessed. *)
C15_ReturnsWithNothingLeft ==
    (runPc = "idle" /\ ranBefore) =>
        \A t \in task : GetStep(t.step_id).name \in ManifestNames => t.processed
----------------------------------------------------------------------------
(* SpecTaint: the step table under CreateStep as scripts and inputs are    *)
(* edited, tasks on the versions, and the migration of the tasks of a      *)
(* tainted version.  MigrateTaintedStepTasks is written for the schema of  *)
(* db.go, where the input of a task is its object_hash and input_task_id   *)
(* and the task table has no UNIQUE constraint: the input field of a row   *)
(* stands for these columns, and no resource table is involved.            *)

\* the script texts a step is given
ScriptTexts == {nA, nB}

\* the Step values passed to CreateStep: the start step as the manifest
\* has it, and the step b with its script and inputs edited
UpsertArgs ==
    { [name |-> nA, script |-> nA, is_start |-> TRUE, parallel |-> NoParallel, inputs |-> <<>>] }
    \cup
    { [name |-> nB, script |-> sc, is_start |-> FALSE, parallel |-> NoParallel, inputs |-> inp] :
        sc \in ScriptTexts, inp \in {<<>>, <<nB>>} }

InitTaint ==
    /\ step = {}
    /\ resource = {}
    /\ task = {}
    /\ seqResource = 0
    /\ seqTask = 0
    /\ objects = {}
    /\ lastOp = [op |-> "NewDatabase", step |-> NULL, ret |-> 0, again |-> FALSE]
    /\ InitNoConsumer
    /\ InitNoRun
    /\ InitNoStep

TaintCreateStep ==
    /\ \E s \in UpsertArgs :
         /\ Cardinality(CreateStepRows(step, s)) <= MaxSteps
         /\ step' = CreateStepRows(step, s)
         /\ RecordOp("CreateStep", NULL, CreateStepID(step, s))
    /\ UNCHANGED <<resource, task, seqResource, seqTask, objects>>
    /\ UNCHANGED notDb

\* Database.CreateTask of db.go: INSERT OR IGNORE into a table without a
\* UNIQUE constraint, so the row is always inserted; each task is given
\* an input of its own
TaintCreateTask ==
    /\ seqTask < MaxTasks
    /\ \E s \in StepIds :
         task' = task \cup {TaskRow(seqTask + 1, s, seqTask + 1, FALSE, NoError)}
    /\ seqTask' = seqTask + 1
    /\ RecordOp("CreateTask", NULL, seqTask + 1)
    /\ UNCHANGED <<step, resource, seqResource, objects>>
    /\ UNCHANGED notDb

\* MigrateTaintedStepTasks, called as its caller does: on a step that
\* GetTaintedSteps yields
TaintMigrate ==
    /\ \E id \in {r.id : r \in TaintedRows(step)} :
         LET out == MigrateTaintedStepTasks(step, task, seqTask, id)
         IN /\ out.seq <= MaxRows
            /\ task' = out.rows
            /\ seqTask' = out.seq
            /\ RecordOp("MigrateTaintedStepTasks", id, out.ret)
    /\ UNCHANGED <<step, resource, seqResource, objects>>
    /\ UNCHANGED notDb

\* the migration of every tainted step: the loop over GetTaintedSteps
MigrateTainted ==
    LET out == MigrateEach(step, task, seqTask, GetTaintedSteps(step))
    IN /\ out.seq <= MaxRows
       /\ task' = out.rows
       /\ seqTask' = out.seq
       /\ RecordOp("migrate-tainted", NULL, Len(GetTaintedSteps(step)))
       /\ UNCHANGED <<step, resource, seqResource, objects>>
       /\ UNCHANGED notDb

NextTaint ==
    \/ TaintCreateStep
    \/ TaintCreateTask
    \/ DbUpdateTaskStatus
    \/ TaintMigrate
    \/ MigrateTainted

SpecTaint == InitTaint /\ [][NextTaint]_vars

\* the newest row of the name of the row r
LatestOfName(r) == Latest({q \in step : q.name = r.name})

(* C16: the id CreateStep returns is the id of the latest version of the   *)
(* step's name: it updates the latest row when that row has the script and *)
(* the inputs given, and inserts version max + 1 in every other case.      *)
(* CreateStep looks for the newest row with the name AND the script, so a  *)
(* script given again after another one finds its old row.                 *)
C16_ReturnsLatest ==
    lastOp.op = "CreateStep" => LatestOfName(GetStep(lastOp.ret)).id = lastOp.ret

(* C17: GetTaintedSteps yields exactly the rows that are not the latest of *)
(* their name and whose script or inputs differ from the latest row of the *)
(* name.  Its WHERE clause compares a row with every newer row.            *)
C17_TaintedVsLatest ==
    Range(GetTaintedSteps(step)) =
        { r \in step : /\ r # LatestOfName(r)
                       /\ \/ r.script # LatestOfName(r).script
                          \/ r.inputs # LatestOfName(r).inputs }

(* C18: MigrateTaintedStepTasks(id) on a tainted step adds, for every task *)
(* row of that step, one row on the latest step of the name with the same  *)
(* input, processed = false and no error; it returns the number of rows    *)
(* added; no row that existed is changed or removed, and the step table is *)
(* left as it was.                                                         *)
C18_MigrateCopies ==
    [][ ( /\ lastOp'.op = "MigrateTaintedStepTasks"
          /\ lastOp' # lastOp \/ task' # task
          /\ GetStep(lastOp'.step) \in TaintedRows(step) ) =>
        LET from == {t \in task : t.step_id = lastOp'.step}
            new == task' \ task
        IN /\ step' = step
           /\ task \subseteq task'
           /\ \A n \in new : /\ n.step_id = LatestOfName(GetStep(lastOp'.step)).id
                             /\ ~n.processed
                             /\ n.error = NoError
           /\ \A input \in 1..MaxTasks :
                  Cardinality({n \in new : n.input_resource_id = input})
                    = Cardinality({t \in from : t.input_resource_id = input})
           /\ Cardinality(new) = Cardinality(from)
           /\ lastOp'.ret = Cardinality(from)
      ]_vars

\* two tasks of a tainted step, one of them processed, were copied
C18_Witness ==
    /\ lastOp.op = "MigrateTaintedStepTasks"
    /\ lastOp.ret = 2
    /\ \E r \in TaintedRows(step) :
         /\ r.id = lastOp.step
         /\ \E t \in task : t.step_id = r.id /\ t.processed
         /\ Cardinality(GetUnprocessedTasks(LatestOfName(r).id)) = 2

(* C19: after the migration of every tainted step, the number of           *)
(* unprocessed tasks of the current version of a step is the number of     *)
(* tasks of its newest tainted version; stated for a current version on    *)
(* which every task is a copy of a task of a tainted version.  The tasks   *)
(* of every tainted version are copied, and they are copied again by       *)
(* every migration.                                                        *)
C19_MigratedCount ==
    lastOp.op = "migrate-tainted" =>
        \A cur \in CurrentSteps :
            LET older == {r \in TaintedRows(step) : r.name = cur.name}
                copied == \A t \in task : t.step_id = cur.id =>
                              \E o \in task : /\ o.step_id \in {r.id : r \in older}
                                              /\ o.input_resource_id = t.input_resource_id
            IN (older # {} /\ copied) =>
                 Cardinality(GetUnprocessedTasks(cur.id))
                   = Cardinality({t \in task : t.step_id = Latest(older).id})
----------------------------------------------------------------------------
(* SpecRerun: runs of the pipeline between which the operator edits the    *)
(* script of step b in the manifest file.                                  *)

\* the manifest with another script for step b
EditedRunSteps ==
    [i \in DOMAIN RunSteps |->
        IF RunSteps[i].name = nB THEN [RunSteps[i] EXCEPT !.script = nC] ELSE RunSteps[i]]

\* the manifest file is read when the program starts: between two runs it
\* can have been edited
EditManifest ==
    /\ runPc = "idle"
    /\ manifest' = IF manifest = RunSteps THEN EditedRunSteps ELSE RunSteps
    /\ UNCHANGED <<dbVars, ingestVars, build, chan, outputWatcher, pool, runPc, stepsLeft,
                   numberOfExecutions, executed,
                   ranBefore, passOrder, spawned, rerunTerminal, stepVars, parVars>>

NextRerun ==
    \/ RunStart
    \/ Seed
    \/ \E s \in StepIds : ExecuteStep(s)
    \/ ExecuteReturnsPositive
    \/ ExecuteReturnsZero
    \/ FuseRelease
    \/ ProcessFuseOutputs
    \/ EditManifest

SpecRerun == InitRun /\ [][NextRerun]_vars

(* C20: run performs no taint migration: from its start to the first       *)
(* Execute it adds no task row, so no task of a superseded version of a    *)
(* step is copied onto the current version.  run calls                     *)
(* MigrateTaintedStepTasks for every step GetTaintedSteps yields, each     *)
(* time it is started.                                                     *)
C20_RunNeverMigrates ==
    [][ (runPc = "idle" /\ runPc' = "seed") => task' = task ]_vars
----------------------------------------------------------------------------
----------------------------------------------------------------------------
(* SpecNames: the ingestion paths fed with files whose names carry         *)
(* extensions and underscores.                                             *)

\* the basenames foo_123.txt, foo.txt, foo and foo_bar_baz.x, shortened
NamedEmissions ==
    { FileData(<<"f", "_", "1", ".", "t">>, <<1>>), FileData(<<"f", ".", "t">>, <<1>>),
      FileData(<<"f">>, <<1>>), FileData(<<"f", "_", "b", "_", "z", ".", "x">>, <<1>>) }

\* a script's file reaches the channel of MakeResourceConsumer
EmitNamed ==
    /\ emitted < MaxEmissions
    /\ \E fd \in NamedEmissions : outputChan' = Append(outputChan, fd)
    /\ emitted' = emitted + 1
    /\ UNCHANGED <<dbVars, storeChan, dbJobChan, dbWorker, returned>>
    /\ UNCHANGED notIngest

\* the goroutines that call CreateResourceFromReader pass the file's name
IngestNamedFromReader == \E fd \in NamedEmissions : CreateResourceFromReader(fd.Name, fd.data)

NextNames ==
    \/ EmitNamed
    \/ HashWorker
    \/ StoreWorker
    \/ \E w \in 1..NumCPU : DbWorkerInsert(w)
    \/ \E w \in 1..NumCPU : DbWorkerSelect(w)
    \/ IngestNamedFromReader

SpecNames == InitIngest /\ [][NextNames]_vars

(* C22: the name stored on a resource row is the basename of the emitted   *)
(* file without its final extension, cut before the first "_": each of the *)
(* four basenames gives the name f, on every ingestion path.  That is what *)
(* extractStepName computes, but MakeResourceConsumer stores               *)
(* strings.Split(name, "_")[0], which keeps the extension, and the callers *)
(* of CreateResourceFromReader store the file's name as it is.             *)
C22_LogicalName ==
    \A r \in resource : r.name \in {ExtractStepName(fd.Name) : fd \in NamedEmissions}
----------------------------------------------------------------------------
(* C23: a file whose logical name is the name of no step is ingested all   *)
(* the same: when processFuseOutputs has taken it from fuseOutputs, its    *)
(* bytes are in the object store and a resource row carries their hash,    *)
(* and no task has that row as input.  processFuseOutputs looks the step   *)
(* up first and drops the file when there is none.                         *)
C23_UnmatchedStored ==
    [][ ( /\ outputChan # <<>>
          /\ outputChan' = Tail(outputChan)
          /\ runPc' = runPc
          /\ GetStepByName(ExtractStepName(Head(outputChan).Name)) = {} ) =>
        LET hash == SHA256(Head(outputChan).data)
        IN /\ \E o \in objects' : o.hash = hash
           /\ \E r \in resource' :
                /\ r.object_hash = hash
                /\ ~ \E t \in task' : t.input_resource_id = r.id
      ]_vars
----------------------------------------------------------------------------
(* SpecFault: ExecuteStep of part_009 with the steps of run, where the     *)
(* calls on the metadata store can fail (disk full, database locked).      *)

\* ExecuteStep: ScheduleTasksForStep returns an error, which is logged, and
\* ExecuteStep returns 0
FaultSchedule(s) ==
    /\ runPc = "steps"
    /\ stepPc = "none"
    /\ s \in stepsLeft
    /\ RecordOp("ScheduleTasksForStep", s, Failed)
    /\ stepsLeft' = stepsLeft \ {s}
    /\ passOrder' = Append(passOrder, s)
    /\ UNCHANGED <<step, resource, task, seqResource, seqTask, objects, outputChan, emitted,
                   runPc, stepPc, numberOfExecutions, executed, spawned, queue, worker>>
    /\ UNCHANGED notRoute

\* ExecuteStep: the tasks are scheduled, then the query of
\* GetUnprocessedTasks fails: the error is logged and the channel closed
\* without a task
FaultQuery(s) ==
    LET rs == IF Len(GetStep(s).inputs) = 0 THEN {} ELSE SchedulableResources(s)
    IN /\ runPc = "steps"
       /\ stepPc = "none"
       /\ s \in stepsLeft
       /\ seqTask + Cardinality(rs) <= MaxTasks
       /\ task' = task \cup ScheduledRows(s, rs)
       /\ seqTask' = seqTask + Cardinality(rs)
       /\ RecordOp("GetUnprocessedTasks", s, Failed)
       /\ queue' = {}
       /\ stepsLeft' = stepsLeft \ {s}
       /\ passOrder' = Append(passOrder, s)
       /\ stepPc' = "running"
       /\ UNCHANGED <<step, resource, seqResource, objects, outputChan, emitted, runPc,
                      numberOfExecutions, executed, spawned, worker>>
       /\ UNCHANGED notRoute

\* the script exits and UpdateTaskStatus fails: the error is logged, the
\* row stays as it was, executionCount++
FaultUpdate ==
    /\ worker[1].pc = "run"
    /\ CopiesIn(worker[1].task, spawned) <= MaxFaults
    /\ RecordOp("UpdateTaskStatus", NULL, Failed)
    /\ executed' = executed \cup {worker[1].task}
    /\ numberOfExecutions' = numberOfExecutions + 1
    /\ worker' = [worker EXCEPT ![1] = Idle]
    /\ UNCHANGED <<step, resource, task, seqResource, seqTask, objects, outputChan, emitted,
                   runPc, stepPc, stepsLeft, passOrder, spawned, queue>>
    /\ UNCHANGED notRoute

NextFault ==
    \/ \E s \in StepIds : RouteBeginStep(s)
    \/ RouteScript
    \/ RouteRelease
    \/ RouteIngest
    \/ RouteFinish
    \/ RouteEndStep
    \/ RouteAgain
    \/ RouteReturn
    \/ \E s \in StepIds : FaultSchedule(s)
    \/ \E s \in StepIds : FaultQuery(s)
    \/ FaultUpdate

SpecFault == InitRoute /\ [][NextFault]_vars

(* C24: a failure of the metadata store stops the run: when                *)
(* ScheduleTasksForStep, the query of the unprocessed tasks or the update  *)
(* of the task status fails, the run is no longer going on afterwards, the *)
(* step is not taken as done and the task is not counted as executed.      *)
(* ExecuteStep logs each of these errors and goes on.                      *)
C24_StorageFailureAborts ==
    [][ (lastOp'.ret = Failed /\ lastOp' # lastOp) =>
            /\ runPc' # "steps"
            /\ numberOfExecutions' = numberOfExecutions
      ]_vars
----------------------------------------------------------------------------
(* SpecStart: the step table under the CreateStep calls of successive      *)
(* runs, between which the manifest's scripts and its start flag change.   *)

\* the manifests: the stub "done", then a and b, each with one of two
\* scripts, and the start flag on exactly one of them
StartManifests ==
    { << RunSteps[1],
         [name |-> nA, script |-> sa, is_start |-> st, parallel |-> NoParallel, inputs |-> <<>>],
         [name |-> nB, script |-> sb, is_start |-> ~st, parallel |-> NoParallel, inputs |-> <<>>] >> :
        sa \in {nA, nC}, sb \in {nB, nC}, st \in BOOLEAN }

\* run registers the steps of the manifest it was started with
RegisterManifest ==
    /\ \E m \in StartManifests :
         /\ manifest' = m
         /\ step' = RegisterSteps(step, m)
    /\ UNCHANGED <<resource, task, seqResource, seqTask, objects, lastOp, ingestVars, build,
                   chan, outputWatcher, pool, runPc, stepsLeft, numberOfExecutions, executed, ranBefore, passOrder, spawned,
                   rerunTerminal, stepVars, parVars>>

NextStart ==
    \/ RegisterManifest

SpecStart == InitRun /\ [][NextStart]_vars

\* the rows SELECT ... WHERE is_start = 1 ORDER BY version DESC LIMIT 1 can
\* return: the order among rows of equal version is not specified
StartingStepCandidates ==
    {r \in step : r.is_start /\ \A q \in step : q.is_start => q.version <= r.version}

(* C25: after a manifest load at most one current step has is_start, and   *)
(* GetStartingStep returns a current step.  The query of GetStartingStep   *)
(* looks at the rows of every version of every name: a superseded version  *)
(* keeps the is_start it was given.                                        *)
C25_StartStepCurrent ==
    /\ Cardinality({r \in CurrentSteps : r.is_start}) <= 1
    /\ StartingStepCandidates \subseteq CurrentSteps
----------------------------------------------------------------------------
(* C26: Stop marks the mount closed, waits for the open handles, and then  *)
(* emits every file that is still buffered before it unmounts; a non-empty *)
(* file released after the mount was marked closed is emitted too.  So no  *)
(* non-empty file is ever dropped by Release, and once Stop has unmounted  *)
(* no handle is left with bytes that were not sent.  Stop of               *)
(* fuse_watcher.go has no drain, and Release sends only when the watcher   *)
(* is not closed.                                                          *)
C26_StopEmitsBuffered ==
    /\ \A f \in written : f.how = "dropped" => f.data = <<>>
    /\ stepPc \in {"draining", "returned"} => \A h \in handles : h.content = <<>>
----------------------------------------------------------------------------
(* SpecMount: the scripts of a step open files and directories of the      *)
(* mount, with the flags open(2) passes on.                                *)

\* fuse.OK, fuse.EACCES, fuse.EROFS
FuseOK == 0
EACCES == 13
EROFS == 30

\* flags of open(2): O_RDONLY, O_WRONLY, O_RDWR, O_WRONLY|O_CREAT|O_TRUNC
OpenFlags == {0, 1, 2, 577}

\* the access mode of the flags: flags & 0x3
AccessMode(flags) == flags % 4

\* the flags ask to read: O_RDONLY (0) or O_RDWR (2)
ReadIntent(flags) == AccessMode(flags) \in {0, 2}

\* the step runs with OUTPUT_DIR on the mount
InitMount ==
    /\ InitStep
    /\ outputDir = "mount"

\* fuseFS.OpenDir
ScriptOpenDir(t) ==
    /\ t \in running
    /\ RecordOp("OpenDir", NULL, EACCES)
    /\ UNCHANGED <<step, resource, task, seqResource, seqTask, objects, outputChan, emitted,
                   stepVars>>
    /\ UNCHANGED notStep

\* fuseFS.Open: EROFS on a closed watcher, EACCES for access mode
\* O_RDONLY, else a fresh buffer for the name and one more open file
ScriptOpen(t) ==
    /\ t \in running
    /\ \E n \in FileNames, flags \in OpenFlags :
         IF closed
         THEN /\ RecordOp("Open", flags, EROFS)
              /\ UNCHANGED <<handles, files, emitted>>
         ELSE IF AccessMode(flags) = 0
         THEN /\ RecordOp("Open", flags, EACCES)
              /\ UNCHANGED <<handles, files, emitted>>
         ELSE /\ emitted < MaxEmissions
              /\ RecordOp("Open", flags, FuseOK)
              /\ handles' = handles \cup
                   {[h |-> emitted + 1, task |-> t, name |-> n, content |-> <<>>, pc |-> "open"]}
              /\ files' = files \cup {n}
              /\ emitted' = emitted + 1
    /\ UNCHANGED <<step, resource, task, seqResource, seqTask, objects, outputChan,
                   outputDir, stepPc, closed, written, queue, running>>
    /\ UNCHANGED notStep

NextMount ==
    \/ \E t \in queue : StartTask(t)
    \/ \E t \in running : ScriptOpenDir(t)
    \/ \E t \in running : ScriptOpen(t)
    \/ \E h \in handles : ScriptWrite(h)
    \/ \E h \in handles : ReleaseBegin(h)
    \/ \E h \in handles : ReleaseSend(h)
    \/ \E t \in running : TaskDone(t)
    \/ StopBegin
    \/ StopUnmount
    \/ StepReturn
    \/ ProcessFuseOutputs

SpecMount == InitMount /\ [][NextMount]_vars

(* C27: the mount is write-only: OpenDir returns EACCES; an Open whose     *)
(* flags ask to read (O_RDONLY or O_RDWR) returns EACCES and leaves the    *)
(* open handles as they were; an Open that returns OK registers one handle *)
(* with an empty buffer.  Open refuses access mode O_RDONLY only, so       *)
(* O_RDWR is accepted as a write.                                          *)
C27_WriteOnly ==
    [][ /\ lastOp'.op = "OpenDir" => lastOp'.ret = EACCES /\ handles' = handles
        /\ (lastOp'.op = "Open" /\ (lastOp' # lastOp \/ handles' # handles)) =>
             IF ReadIntent(lastOp'.step)
             THEN lastOp'.ret = EACCES /\ handles' = handles
             ELSE lastOp'.ret = FuseOK =>
                    /\ handles \subseteq handles'
                    /\ Cardinality(handles' \ handles) = 1
                    /\ \A h \in handles' \ handles : h.content = <<>>
      ]_vars
----------------------------------------------------------------------------
(* SpecOrder: one task's script closes three files one after the other;    *)
(* MakeResourceConsumer ingests them.  Each of the NumCPU DB workers       *)
(* receives a job from dbJobChan and then calls CreateResource.            *)

\* the files of one task in the order of their Release: different logical
\* names or different bytes, so each is a resource row of its own
OrderedEmissions ==
    << FileData(<<"b", "_", "1">>, <<1>>), FileData(<<"c">>, <<1>>),
       FileData(<<"b", "_", "1">>, <<2>>) >>

\* Release sends the next closed file to outputChan
EmitInOrder ==
    /\ emitted < Len(OrderedEmissions)
    /\ emitted < MaxEmissions
    /\ outputChan' = Append(outputChan, OrderedEmissions[emitted + 1])
    /\ emitted' = emitted + 1
    /\ UNCHANGED <<dbVars, storeChan, dbJobChan, dbWorker, returned>>
    /\ UNCHANGED notIngest

\* a DB worker of Parallel0 receives the next job from dbJobChan
DbWorkerTake(w) ==
    /\ dbWorker[w] = Idle
    /\ dbJobChan # <<>>
    /\ dbWorker' = [dbWorker EXCEPT ![w] =
                      [pc |-> "insert", name |-> Head(dbJobChan).name, hash |-> Head(dbJobChan).hash]]
    /\ dbJobChan' = Tail(dbJobChan)
    /\ UNCHANGED <<dbVars, outputChan, storeChan, returned, emitted>>
    /\ UNCHANGED notIngest

\* the worker's call of CreateResource runs its INSERT
DbWorkerCreate(w) ==
    /\ dbWorker[w].pc = "insert"
    /\ LET j == dbWorker[w]
       IN /\ ResourceUniqueConflict(j.name, j.hash) \/ seqResource < MaxResources
          /\ resource' = CreateResourceRows(j.name, j.hash)
          /\ seqResource' = IF ResourceUniqueConflict(j.name, j.hash)
                            THEN seqResource ELSE seqResource + 1
          /\ dbWorker' = [dbWorker EXCEPT ![w] = [pc |-> "select", name |-> j.name, hash |-> j.hash]]
    /\ UNCHANGED <<step, task, seqTask, objects, lastOp,
                   outputChan, storeChan, dbJobChan, returned, emitted>>
    /\ UNCHANGED notIngest

NextOrder ==
    \/ EmitInOrder
    \/ HashWorker
    \/ StoreWorker
    \/ \E w \in 1..NumCPU : DbWorkerTake(w)
    \/ \E w \in 1..NumCPU : DbWorkerCreate(w)
    \/ \E w \in 1..NumCPU : DbWorkerSelect(w)

SpecOrder == InitIngest /\ [][NextOrder]_vars

\* the resource rows of the i-th file the task closed
RowsOfEmission(i) ==
    {r \in resource : /\ r.name = SplitFirst(OrderedEmissions[i].Name, "_")
                      /\ r.object_hash = SHA256(OrderedEmissions[i].data)}

(* C28: the resource rows of one task's files are created in the order in  *)
(* which the files were closed: a later file has a row only when every     *)
(* earlier file has one, and the earlier row was inserted first (smaller   *)
(* id).  The DB workers of MakeResourceConsumer run their INSERTs in any   *)
(* order, so the later file's row can come first.                          *)
C28_IngestedInCloseOrder ==
    \A i, j \in 1..Len(OrderedEmissions) :
        (i < j /\ RowsOfEmission(j) # {}) =>
            /\ RowsOfEmission(i) # {}
            /\ \A ri \in RowsOfEmission(i), rj \in RowsOfEmission(j) : ri.id < rj.id
----------------------------------------------------------------------------
(* SpecRestart: the database calls of SpecDB, and run of run.go started    *)
(* with a start-step argument.                                             *)

\* Database.MarkStepTasksUnprocessed(stepName): UPDATE task SET processed = 0
\* WHERE step_id = (SELECT id FROM step WHERE name = ?); step.name is UNIQUE
MarkStepTasksUnprocessedRows(stepName) ==
    LET sid == {r.id : r \in {q \in step : q.name = stepName}}
    IN { IF t.step_id \in sid THEN [t EXCEPT !.processed = FALSE] ELSE t : t \in task }

\* the RowsAffected of that UPDATE
MarkStepTasksUnprocessedCount(stepName) ==
    Cardinality({t \in task : \E r \in step : r.name = stepName /\ t.step_id = r.id})

\* run with startStepName # "": GetStepByName, MarkStepTasksUnprocessed, and
\* InsertTask of an initial task when the step has no task
RunFromStep ==
    \E startStepName \in {r.name : r \in step} :
        LET startStep == CHOOSE r \in step : r.name = startStepName
            count == MarkStepTasksUnprocessedCount(startStepName)
        IN /\ IF count > 0
              THEN /\ task' = MarkStepTasksUnprocessedRows(startStepName)
                   /\ UNCHANGED seqTask
              ELSE /\ seqTask < MaxTasks
                   /\ task' = task \cup {TaskRow(seqTask + 1, startStep.id, NULL, FALSE, NoError)}
                   /\ seqTask' = seqTask + 1
           /\ RecordOp("run", startStep.id, count)
           /\ UNCHANGED <<step, resource, seqResource, objects>>
           /\ UNCHANGED notDb

NextRestart ==
    \/ DbCreateResource
    \/ DbScheduleTasksForStep
    \/ DbCreateTask
    \/ DbCreateTasksFromResources
    \/ DbUpdateTaskStatus
    \/ DbMarkStepUndone
    \/ RunFromStep

SpecRestart == InitSpecDB /\ [][NextRestart]_vars

(* C29: processed = true is terminal: a task row that has processed = true *)
(* has it in the next state too, unless the row is gone.  run of run.go    *)
(* with a start-step argument calls MarkStepTasksUnprocessed, which sets   *)
(* every task of that step back to processed = false.                      *)
C29_ProcessedTerminal ==
    [][ \A t \in task : t.processed =>
            \A u \in task' : u.id = t.id => u.processed ]_vars
----------------------------------------------------------------------------
(* C30: a task row has processed = true only after its script has exited:  *)
(* while the script of a task runs, the row is processed = false, so an    *)
(* engine that stops then leaves the task to the next run.  deriveTasks of *)
(* run.go calls MarkTaskProcessed before it starts the script.             *)
C30_ProcessedAfterExit ==
    \A t \in task : t.id \in running => ~t.processed
----------------------------------------------------------------------------
(* C31: when Execute has returned for a task, every file handle the task's *)
(* script opened on the mount has been released: no open handle belongs to *)
(* an executed task.  Execute returns when the script's shell has exited   *)
(* and never calls WaitForWrites, so a file the script left open is        *)
(* released later.                                                         *)
C31_ExecuteWaitsForRelease ==
    \A h \in handles : h.task \notin executed
----------------------------------------------------------------------------
(* C32: the Release of a handle emits exactly one FileData with the        *)
(* handle's name and the bytes of its buffer when the buffer is non-empty, *)
(* and nothing when it is empty: in the step in which a handle leaves the  *)
(* open handles, fuseOutputs gains that emission or stays as it was.       *)
(* Release sends only if the watcher is not closed: a non-empty file       *)
(* released after Stop began leaves the channel as it was.                 *)
C32_ReleaseEmitsOnce ==
    [][ \A h \in handles :
          (\A g \in handles' : g.h # h.h) =>
              IF h.content # <<>>
              THEN outputChan' = Append(outputChan, FileData(h.name, h.content))
              ELSE outputChan' = outputChan ]_vars
----------------------------------------------------------------------------
(* SpecWrite: a script writes its files at any offsets (seek, then write). *)
(* A byte of the model is 1 or 2; 0 is the zero byte of a fresh buffer.    *)

\* the longest buffer
MaxLen == 3
\* the files the script writes, one after the other
MaxFiles == 1

\* the data of one write(2)
WriteData == {<<1>>, <<2, 1>>}

\* a mistaken Write: the offset is ignored and the data appended
WriteAppend(content, data, off) == content \o data

\* fuseFile.Write: the buffer after Write(data, off): extended with zero
\* bytes to off + len(data) if that is longer, then data copied in at off
Write(content, data, off) ==
    LET newSize == off + Len(data)
        newContent == IF newSize > Len(content)
                      THEN content \o [i \in 1..(newSize - Len(content)) |-> 0]
                      ELSE content
    IN [i \in 1..Len(newContent) |->
          IF i > off /\ i <= off + Len(data) THEN data[i - off] ELSE newContent[i]]

\* a write(2) of the script on an open file of the mount
FileWrite(h) ==
    /\ h \in handles
    /\ h.pc = "open"
    /\ \E data \in WriteData, off \in 0..(MaxLen - 1) :
          /\ off + Len(data) <= MaxLen
          /\ handles' = (handles \ {h}) \cup {[h EXCEPT !.content = Write(h.content, data, off)]}
          /\ lastOp' = [op |-> "Write", step |-> off, ret |-> data, again |-> FALSE, h |-> h.h]
    /\ UNCHANGED <<step, resource, task, seqResource, seqTask, objects, outputChan, emitted,
                   outputDir, stepPc, closed, files, written, queue, running>>
    /\ UNCHANGED notStep

NextWrite ==
    \/ \E t \in queue : StartTask(t)
    \/ \E t \in running : handles = {} /\ emitted < MaxFiles /\ ScriptCreate(t)
    \/ \E h \in handles : FileWrite(h)
    \/ \E h \in handles : ReleaseBegin(h)
    \/ \E h \in handles : ReleaseSend(h)
    \/ \E t \in running : TaskDone(t)
    \/ ProcessFuseOutputs

SpecWrite == InitMount /\ [][NextWrite]_vars

\* two writes touch no common byte
NonOverlapping(d1, o1, d2, o2) == o1 + Len(d1) <= o2 \/ o2 + Len(d2) <= o1

(* C33: after Write(data, off) the buffer has length max(previous length,  *)
(* off + len(data)), its bytes in [off, off + len(data)) are data, every   *)
(* other byte it had is unchanged and the gap between its previous end and *)
(* off is zero; and two non-overlapping writes give the same buffer in     *)
(* either order.                                                           *)
C33_WriteAtOffset ==
    /\ [][ lastOp'.op = "Write" /\ lastOp' # lastOp =>
             \A h \in handles : h.h = lastOp'.h =>
                 \E g \in handles' :
                     LET data == lastOp'.ret
                         off == lastOp'.step
                         old == h.content
                         new == g.content
                     IN /\ g.h = h.h
                        /\ Len(new) = Max({Len(old), off + Len(data)})
                        /\ \A i \in 1..Len(new) :
                              new[i] = IF i > off /\ i <= off + Len(data) THEN data[i - off]
                                       ELSE IF i <= Len(old) THEN old[i]
                                       ELSE 0 ]_vars
    /\ [](\A h \in handles :
            \A d1 \in WriteData, d2 \in WriteData, o1 \in 0..(MaxLen - 1), o2 \in 0..(MaxLen - 1) :
                NonOverlapping(d1, o1, d2, o2) =>
                    Write(Write(h.content, d1, o1), d2, o2) = Write(Write(h.content, d2, o2), d1, o1))

\* a write past the end of the buffer left a zero byte before its data
C33_Witness ==
    /\ lastOp.op = "Write"
    /\ lastOp.step > 0
    /\ \E h \in handles : h.h = lastOp.h /\ Len(h.content) > 1 /\ h.content[1] = 0
----------------------------------------------------------------------------
(* SpecUnlink: the scripts also remove files of the mount and stat them.   *)

\* fuse.ENOENT
ENOENT == 2

\* fuseFS.GetAttr of a file name: OK if the name is in the files map
GetAttr(name) == IF name \in files THEN FuseOK ELSE ENOENT

\* fuseFS.Unlink: delete(files, name); the fuseFile handles opened under the
\* name keep their pointer to the buffer
ScriptUnlink(t) ==
    /\ t \in running
    /\ \E n \in FileNames :
          /\ files' = files \ {n}
          /\ lastOp' = [op |-> "Unlink", step |-> NULL, ret |-> FuseOK, again |-> FALSE,
                        name |-> n, open |-> {h.h : h \in {g \in handles : g.name = n}}]
    /\ UNCHANGED <<step, resource, task, seqResource, seqTask, objects, outputChan, emitted,
                   outputDir, stepPc, closed, handles, written, queue, running>>
    /\ UNCHANGED notStep

NextUnlink ==
    \/ \E t \in queue : StartTask(t)
    \/ \E t \in running : emitted < MaxFiles /\ ScriptCreate(t)
    \/ \E h \in handles : ScriptWrite(h)
    \/ \E t \in running : ScriptUnlink(t)
    \/ \E h \in handles : ReleaseBegin(h)
    \/ \E h \in handles : ReleaseSend(h)
    \/ \E t \in running : TaskDone(t)
    \/ ProcessFuseOutputs

SpecUnlink == InitMount /\ [][NextUnlink]_vars

(* C34: Unlink(name) forgets the buffer registered under the name: right   *)
(* after it GetAttr of the name returns ENOENT and no resource row, task   *)
(* row or blob has changed; and the Release of a handle that was open      *)
(* under the name when it was unlinked emits nothing.  Unlink only deletes *)
(* the map entry: the open handle keeps its buffer and Release sends it.   *)
C34_UnlinkForgets ==
    [][ /\ (lastOp'.op = "Unlink" /\ (lastOp' # lastOp \/ (files' # files /\ files' \subseteq files))) =>
              /\ GetAttr(lastOp.name)' = ENOENT
              /\ resource' = resource /\ task' = task /\ objects' = objects
        /\ lastOp.op = "Unlink" =>
              \A h \in handles :
                  (h.h \in lastOp.open /\ \A g \in handles' : g.h # h.h) =>
                      outputChan' = outputChan ]_vars
----------------------------------------------------------------------------
(* SpecChan: the unbounded channel of chan.go: a sender on In(), the       *)
(* goroutine run, a receiver on Out().                                     *)

\* the values sent in one behaviour
MaxSends == 3

\* what the run command left when it was never started, with the rest
runIdle == <<build, manifest, outputWatcher, pool, runPc, stepsLeft, numberOfExecutions, executed,
             ranBefore, passOrder, spawned, rerunTerminal>>

\* what the channel's goroutines leave unchanged
notChan == <<dbVars, ingestVars, stepVars, parVars, runIdle>>

\* NewBoundlessChan: in and out of capacity 1, go c.run(); sent and got
\* are the values sent on In() and received from Out() so far
NewBoundlessChan ==
    /\ chan = NoChan
    /\ chan' = [pc |-> "run", in |-> <<>>, inClosed |-> FALSE, inNil |-> FALSE, q |-> <<>>,
                out |-> <<>>, outClosed |-> FALSE, sent |-> <<>>, got |-> <<>>]
    /\ UNCHANGED notChan

\* a mistaken append: the value is put at the front of the queue
EnqueueFront(q, v) == <<v>> \o q

\* q = append(q, v)
Enqueue(q, v) == Append(q, v)

\* the sender: c.In() <- v, accepted by the buffer of in
Send ==
    /\ chan.pc = "run"
    /\ ~chan.inClosed
    /\ Len(chan.in) < 1
    /\ Len(chan.sent) < MaxSends
    /\ \E v \in 1..2 :
          chan' = [chan EXCEPT !.in = Append(@, v), !.sent = Append(@, v)]
    /\ UNCHANGED notChan

\* the sender: close(c.In())
CloseIn ==
    /\ chan.pc = "run"
    /\ ~chan.inClosed
    /\ chan' = [chan EXCEPT !.inClosed = TRUE]
    /\ UNCHANGED notChan

\* run, case v, ok := <-c.in with ok: q = append(q, v)
RunReceive ==
    /\ chan.pc = "run"
    /\ ~chan.inNil
    /\ chan.in # <<>>
    /\ chan' = [chan EXCEPT !.q = Enqueue(@, Head(chan.in)), !.in = Tail(@)]
    /\ UNCHANGED notChan

\* run, case v, ok := <-c.in with !ok: c.in = nil
RunInputClosed ==
    /\ chan.pc = "run"
    /\ ~chan.inNil
    /\ chan.in = <<>>
    /\ chan.inClosed
    /\ chan' = [chan EXCEPT !.inNil = TRUE]
    /\ UNCHANGED notChan

\* run, case out <- next with next = q[0]: q = q[1:]
RunSend ==
    /\ chan.pc = "run"
    /\ chan.q # <<>>
    /\ Len(chan.out) < 1
    /\ chan' = [chan EXCEPT !.out = Append(@, Head(chan.q)), !.q = Tail(@)]
    /\ UNCHANGED notChan

\* run leaves its loop (c.in == nil and len(q) == 0): close(c.out)
RunClose ==
    /\ chan.pc = "run"
    /\ chan.inNil
    /\ chan.q = <<>>
    /\ chan' = [chan EXCEPT !.outClosed = TRUE, !.pc = "done"]
    /\ UNCHANGED notChan

\* the receiver: <-c.Out()
Receive1 ==
    /\ chan.pc \in {"run", "done"}
    /\ chan.out # <<>>
    /\ chan' = [chan EXCEPT !.got = Append(@, Head(chan.out)), !.out = Tail(@)]
    /\ UNCHANGED notChan

NextChan ==
    \/ NewBoundlessChan
    \/ Send
    \/ CloseIn
    \/ RunReceive
    \/ RunInputClosed
    \/ RunSend
    \/ RunClose
    \/ Receive1

\* the goroutine run is scheduled, the sender closes In() at last and the
\* receiver keeps receiving
SpecChan ==
    /\ InitSpecDB
    /\ [][NextChan]_vars
    /\ WF_vars(NewBoundlessChan) /\ WF_vars(CloseIn)
    /\ WF_vars(RunReceive) /\ WF_vars(RunInputClosed) /\ WF_vars(RunSend) /\ WF_vars(RunClose)
    /\ WF_vars(Receive1)

(* C35: every value sent on In() before it is closed is delivered on Out() *)
(* exactly once and in the order sent: what was received, what waits in    *)
(* out, in the queue and in in, make up the values sent; a full in is      *)
(* always taken by run whatever the receiver does (run's receive is        *)
(* enabled whenever in holds a value); Out() is closed only when In() was  *)
(* closed and the queue is empty; and with a receiver that keeps           *)
(* receiving, everything sent is received and Out() is closed.             *)
C35_Unbounded ==
    /\ [](chan # NoChan =>
            /\ chan.got \o chan.out \o chan.q \o chan.in = chan.sent
            /\ chan.in # <<>> => (chan.pc = "run" /\ ~chan.inNil)
            /\ chan.outClosed => (chan.inClosed /\ chan.q = <<>> /\ chan.in = <<>>))
    /\ <>(chan # NoChan /\ chan.outClosed /\ chan.got = chan.sent)

\* three values went through while the receiver was slow: the queue held two
C35_Witness ==
    /\ chan # NoChan
    /\ Len(chan.q) = 2
    /\ chan.out # <<>>
    /\ chan.got = <<>>
----------------------------------------------------------------------------
(* SpecWatch: the OutputWatcher of watcher.go on the output directory of a *)
(* task whose script creates a file and writes it with several write(2).   *)

\* the contents a script's file ends with
FinalContents == {<<1>>, <<1, 2>>, <<2, 1>>}

\* what the watcher leaves unchanged
notWatch == <<ingestVars, stepVars, parVars, build, manifest, chan, pool, runPc, stepsLeft,
              numberOfExecutions, executed, ranBefore, passOrder, spawned, rerunTerminal>>

\* NewOutputWatcher and Start: the directory is watched, nothing was seen;
\* file is the script's output file, name the event the goroutine took
WatcherStart ==
    /\ outputWatcher = NoWatcher
    /\ outputWatcher' = [pc |-> "watching", name |-> <<>>, events |-> <<>>, seen |-> {},
                         file |-> [state |-> "none"]]
    /\ UNCHANGED <<dbVars, notWatch>>

\* the script creates its output file: fsnotify reports Create
ScriptCreateFile ==
    /\ outputWatcher # NoWatcher
    /\ outputWatcher.file.state = "none"
    /\ \E n \in {<<"b", "_", "1">>, <<"c">>}, f \in FinalContents :
          outputWatcher' = [outputWatcher EXCEPT
              !.file = [state |-> "open", name |-> n, final |-> f, content |-> <<>>, linked |-> TRUE],
              !.events = Append(@, [Op |-> "Create", Name |-> n])]
    /\ UNCHANGED <<dbVars, notWatch>>

\* the script writes the next byte; fsnotify reports Write while the file is
\* an entry of the directory
ScriptWriteFile ==
    /\ outputWatcher # NoWatcher
    /\ outputWatcher.file.state = "open"
    /\ LET file == outputWatcher.file
       IN /\ file.content # file.final
          /\ outputWatcher' = [outputWatcher EXCEPT
                !.file.content = SubSeq(file.final, 1, Len(file.content) + 1),
                !.events = IF file.linked THEN Append(@, [Op |-> "Write", Name |-> file.name]) ELSE @]
    /\ UNCHANGED <<dbVars, notWatch>>

\* the script has written everything and closes the file
ScriptCloseFile ==
    /\ outputWatcher # NoWatcher
    /\ outputWatcher.file.state = "open"
    /\ outputWatcher.file.content = outputWatcher.file.final
    /\ outputWatcher' = [outputWatcher EXCEPT !.file.state = "closed"]
    /\ UNCHANGED <<dbVars, notWatch>>

\* the goroutine of Start receives a Create or Write event and sleeps 10 ms
WatcherEvent ==
    /\ outputWatcher # NoWatcher
    /\ outputWatcher.pc = "watching"
    /\ outputWatcher.events # <<>>
    /\ outputWatcher' = [outputWatcher EXCEPT !.pc = "sleep", !.name = Head(outputWatcher.events).Name,
                                              !.events = Tail(@)]
    /\ UNCHANGED <<dbVars, notWatch>>

\* OutputWatcher.processFile after the sleep: a path seen before is skipped;
\* else the file's bytes as they are now are hashed and stored, the file is
\* removed from the directory and a task of the next step is created
WatcherProcessFile ==
    /\ outputWatcher # NoWatcher
    /\ outputWatcher.pc = "sleep"
    /\ LET filePath == outputWatcher.name
           file == outputWatcher.file
           hash == SHA256(file.content)
           nextStep == GetStepByName(ExtractStepName(filePath))
           isCompleted(n) == \E t \in task : t.step_id = n.id /\ t.input_resource_id = 0 /\ t.processed
       IN IF filePath \in outputWatcher.seen
          THEN /\ outputWatcher' = [outputWatcher EXCEPT !.pc = "watching"]
               /\ UNCHANGED <<objects, task, seqTask>>
          ELSE IF ~(file.state # "none" /\ file.name = filePath /\ file.linked)
          THEN /\ outputWatcher' = [outputWatcher EXCEPT !.pc = "watching", !.seen = @ \cup {filePath}]
               /\ UNCHANGED <<objects, task, seqTask>>
          ELSE /\ outputWatcher' = [outputWatcher EXCEPT !.pc = "watching", !.seen = @ \cup {filePath},
                                                         !.file.linked = FALSE]
               /\ objects' = IF ObjectExists(hash) THEN objects ELSE StoreObject(hash, file.content)
               /\ IF nextStep = {} \/ \E n \in nextStep : isCompleted(n)
                  THEN UNCHANGED <<task, seqTask>>
                  ELSE /\ seqTask < MaxTasks
                       /\ task' = task \cup
                            {[id |-> seqTask + 1, step_id |-> (CHOOSE n \in nextStep : TRUE).id,
                              input_resource_id |-> NULL, processed |-> FALSE, error |-> NoError,
                              object_hash |-> hash]}
                       /\ seqTask' = seqTask + 1
    /\ UNCHANGED <<step, resource, seqResource, lastOp, notWatch>>

NextWatch ==
    \/ WatcherStart
    \/ ScriptCreateFile
    \/ ScriptWriteFile
    \/ ScriptCloseFile
    \/ WatcherEvent
    \/ WatcherProcessFile

SpecWatch == InitSpecDB /\ [][NextWatch]_vars

(* C36: the OutputWatcher ingests a file only when it is written           *)
(* completely: the bytes of every object it stored are the final contents  *)
(* of the script's file.  processFile runs 10 ms after the first event of  *)
(* the file (its Create), reads what the file holds then, marks the path   *)
(* seen and removes the file: the Write events that follow are skipped.    *)
C36_IngestsFinalContents ==
    \A o \in objects :
        /\ outputWatcher # NoWatcher
        /\ outputWatcher.file.state # "none"
        /\ o.data = outputWatcher.file.final
----------------------------------------------------------------------------
(* C37: no send is attempted on fuseOutputs after it was closed: when the  *)
(* cleanup of ExecuteStep leaves Stop and closes the channel, no Release   *)
(* that read closed = false is blocked on, or about to perform, its send.  *)
(* Stop waits for the open files for 2 s only; a Release whose send waits  *)
(* for room in the channel longer than that sends on the closed channel.   *)
C37_NoSendAfterClose ==
    [][ (stepPc = "stopping" /\ stepPc' # "stopping") =>
            /\ \A h \in handles : h.pc # "send"
            /\ stepPc' # "panic" ]_vars
----------------------------------------------------------------------------
(* SpecCount: the workers of ExecuteStep of part_006 with the counter      *)
(* numberOfExecutions, which each worker increments after ExecuteTask      *)
(* without holding the mutex: a load and a store of the shared variable.   *)

\* what the increment leaves unchanged
notCount == <<step, resource, seqResource, seqTask, objects, lastOp, ingestVars, runPc, build,
              manifest, chan, outputWatcher, pool, stepsLeft, ranBefore, passOrder, rerunTerminal,
              outputDir, closed, handles, files, written, arch, maxParallel>>

InitCount ==
    /\ InitPar
    /\ arch = "part_006"

\* p.ExecuteTask(task, fuseWatcher) returns: the script has exited and the
\* row is marked; the worker is before numberOfExecutions++
CountFinish(w) ==
    /\ worker[w].pc = "run"
    /\ executed' = executed \cup {worker[w].task}
    /\ running' = running \ {worker[w].task}
    /\ task' = ExecuteTasks(task, {worker[w].task})
    /\ worker' = [worker EXCEPT ![w] = [pc |-> "load", task |-> worker[w].task]]
    /\ UNCHANGED <<stepPc, queue, spawned>>
    /\ UNCHANGED notPar

\* numberOfExecutions++: the worker reads the variable
CountLoad(w) ==
    /\ worker[w].pc = "load"
    /\ worker' = [worker EXCEPT ![w] = [pc |-> "store", task |-> worker[w].task,
                                        reg |-> numberOfExecutions]]
    /\ UNCHANGED <<task, executed, running, stepPc, queue, spawned>>
    /\ UNCHANGED notPar

\* numberOfExecutions++: the worker writes the value it read, plus one
CountStore(w) ==
    /\ worker[w].pc = "store"
    /\ numberOfExecutions' = worker[w].reg + 1
    /\ worker' = [worker EXCEPT ![w] = Idle]
    /\ UNCHANGED <<task, executed, running, stepPc, queue, spawned>>
    /\ UNCHANGED notCount

NextCount ==
    \/ \E w \in 1..MaxPar : Receive(w)
    \/ \E w \in 1..MaxPar : CountFinish(w)
    \/ \E w \in 1..MaxPar : CountLoad(w)
    \/ \E w \in 1..MaxPar : CountStore(w)
    \/ WorkersReturn

SpecCount == InitCount /\ [][NextCount]_vars

(* C38: the count ExecuteStep returns is the number of tasks its workers   *)
(* executed, for every interleaving of the workers.  Two workers that read *)
(* numberOfExecutions before either writes it count one task for two.      *)
C38_CountIsExecuted ==
    stepPc = "returned" => numberOfExecutions = Cardinality(executed)
----------------------------------------------------------------------------
(* SpecPool: ExecuteStep of pipeline.go with the streaming query of        *)
(* GetUnprocessedTasks and the pool of one connection of NewDatabase.      *)
(* pool.holder is who holds the connection; pool.query is the position of  *)
(* the goroutine of GetUnprocessedTasks; queue holds the rows it has not   *)
(* read yet.  The scripts write no output file.                            *)

\* db.SetMaxOpenConns(1): the connection is free
ConnFree == pool.holder = "none"

\* parallel := maxParallel; if s.Parallel != nil { parallel = *s.Parallel }
PoolWorkers == Par(ParStep, maxParallel)

\* what the query and the workers leave unchanged
notPool == <<step, resource, seqResource, seqTask, objects, lastOp, ingestVars, runPc, build,
             manifest, chan, outputWatcher, stepsLeft, ranBefore, passOrder, rerunTerminal,
             outputDir, closed, handles, files, written, arch, maxParallel>>

InitPool ==
    /\ \E p \in {NoParallel} \cup (0..MaxPar) : step = RegisterSteps({}, ParSteps(p))
    /\ \E n \in 0..NumCollected :
          /\ resource = {[id |-> i, name |-> nB, object_hash |-> SHA256(<<i>>)] : i \in 1..n}
          /\ objects = {[hash |-> SHA256(<<i>>), data |-> <<i>>] : i \in 1..n}
          /\ task = {TaskRow(i, ParStep.id, i, FALSE, NoError) : i \in 1..n}
          /\ seqResource = n
          /\ seqTask = n
          /\ queue = 1..n
    /\ lastOp = [op |-> "NewDatabase", step |-> NULL, ret |-> 0, again |-> FALSE]
    /\ InitNoConsumer
    /\ build = "part_007"
    /\ manifest = RunSteps
    /\ chan = NoChan
    /\ outputWatcher = NoWatcher
    /\ pool = [holder |-> "none", query |-> "start"]
    /\ runPc = "idle"
    /\ stepsLeft = {}
    /\ numberOfExecutions = 0
    /\ executed = {}
    /\ ranBefore = FALSE
    /\ passOrder = <<>>
    /\ spawned = EmptyBag
    /\ rerunTerminal = FALSE
    /\ outputDir = "mount"
    /\ stepPc = "running"
    /\ closed = FALSE
    /\ handles = {}
    /\ files = {}
    /\ written = {}
    /\ running = {}
    /\ arch = "pipeline.go"
    /\ maxParallel \in 0..MaxPar
    /\ worker = [w \in 1..MaxPar |-> Idle]

\* d.db.Query(...) of GetUnprocessedTasks: the rows take the connection and
\* keep it until they are closed
QueryOpen ==
    /\ pool.query = "start"
    /\ ConnFree
    /\ pool' = [holder |-> "rows", query |-> "next"]
    /\ UNCHANGED <<task, executed, running, queue, worker, spawned, stepPc, numberOfExecutions>>
    /\ UNCHANGED notPool

\* rows.Next() with a row left: the goroutine scans it and goes to its send
QueryNext ==
    /\ pool.query = "next"
    /\ queue # {}
    /\ pool' = [pool EXCEPT !.query = "send"]
    /\ UNCHANGED <<task, executed, running, queue, worker, spawned, stepPc, numberOfExecutions>>
    /\ UNCHANGED notPool

\* taskChan <- t meets the receive of a worker waiting in its range loop;
\* the worker enters ExecuteTask, whose first statement is db.GetStep
QuerySend(w) ==
    /\ pool.query = "send"
    /\ w <= PoolWorkers
    /\ worker[w] = Idle
    /\ stepPc = "running"
    /\ queue' = queue \ {Min(queue)}
    /\ worker' = [worker EXCEPT ![w] = [pc |-> "GetStep", task |-> Min(queue)]]
    /\ pool' = [pool EXCEPT !.query = "next"]
    /\ UNCHANGED <<task, executed, running, spawned, stepPc, numberOfExecutions>>
    /\ UNCHANGED notPool

\* rows.Next() with no row left: the rows are closed, which returns the
\* connection, and the deferred close(taskChan) runs
QueryClose ==
    /\ pool.query = "next"
    /\ queue = {}
    /\ pool' = [holder |-> "none", query |-> "closed"]
    /\ UNCHANGED <<task, executed, running, queue, worker, spawned, stepPc, numberOfExecutions>>
    /\ UNCHANGED notPool

\* db.GetStep(*t.StepID) of ExecuteTask obtains the connection, and the
\* script is started
WorkerGetStep(w) ==
    /\ worker[w].pc = "GetStep"
    /\ ConnFree
    /\ worker' = [worker EXCEPT ![w] = [pc |-> "run", task |-> worker[w].task]]
    /\ running' = running \cup {worker[w].task}
    /\ Spawn({worker[w].task})
    /\ UNCHANGED <<task, executed, queue, pool, stepPc, numberOfExecutions>>
    /\ UNCHANGED notPool

\* the script exits and ExecuteTask returns; count.Add(1)
WorkerCount(w) ==
    /\ worker[w].pc = "run"
    /\ executed' = executed \cup {worker[w].task}
    /\ running' = running \ {worker[w].task}
    /\ numberOfExecutions' = numberOfExecutions + 1
    /\ worker' = [worker EXCEPT ![w] = [pc |-> "UpdateTaskStatus", task |-> worker[w].task]]
    /\ UNCHANGED <<task, queue, pool, spawned, stepPc>>
    /\ UNCHANGED notPool

\* p.db.UpdateTaskStatus(task.ID, true, nil) obtains the connection
WorkerUpdate(w) ==
    /\ worker[w].pc = "UpdateTaskStatus"
    /\ ConnFree
    /\ task' = UpdateTaskStatusRows(worker[w].task, TRUE, NoError)
    /\ worker' = [worker EXCEPT ![w] = Idle]
    /\ UNCHANGED <<executed, running, queue, pool, spawned, stepPc, numberOfExecutions>>
    /\ UNCHANGED notPool

\* the range loop of a worker ends on the closed channel; wg.Done()
WorkerExit(w) ==
    /\ w <= PoolWorkers
    /\ worker[w] = Idle
    /\ pool.query = "closed"
    /\ worker' = [worker EXCEPT ![w] = [pc |-> "exit"]]
    /\ UNCHANGED <<task, executed, running, queue, pool, spawned, stepPc, numberOfExecutions>>
    /\ UNCHANGED notPool

\* wg.Wait() returns and ExecuteStep returns count.Load()
PoolReturn ==
    /\ stepPc = "running"
    /\ \A w \in 1..MaxPar : w <= PoolWorkers => worker[w].pc = "exit"
    /\ stepPc' = "returned"
    /\ UNCHANGED <<task, executed, running, queue, worker, pool, spawned, numberOfExecutions>>
    /\ UNCHANGED notPool

NextPool ==
    \/ QueryOpen
    \/ QueryNext
    \/ \E w \in 1..MaxPar : QuerySend(w)
    \/ QueryClose
    \/ \E w \in 1..MaxPar : WorkerGetStep(w)
    \/ \E w \in 1..MaxPar : WorkerCount(w)
    \/ \E w \in 1..MaxPar : WorkerUpdate(w)
    \/ \E w \in 1..MaxPar : WorkerExit(w)
    \/ PoolReturn

SpecPool == InitPool /\ [][NextPool]_vars /\ WF_vars(NextPool)

(* C39: ExecuteStep never deadlocks on the database: with one connection   *)
(* and the streaming query, every database call of a worker obtains the    *)
(* connection and ExecuteStep returns, also with more unprocessed tasks    *)
(* than workers.  The open rows hold the only connection until the last    *)
(* row is sent, and a row is sent only to a worker that is not waiting for *)
(* the connection.                                                         *)
C39_ExecuteStepReturns == <>(stepPc = "returned")
----------------------------------------------------------------------------
(* SpecStop: the mount while and after Stop runs.  A process of a script   *)
(* (the shell, or a process it left behind when it exited) may call Open   *)
(* and Create as long as the filesystem is mounted, and Stop may be called *)
(* again.  A call refused with EROFS is kept in written, with how = EROFS. *)

\* a mistaken Create: closed is not looked at
CreateStatusNoCheck(isClosed) == FuseOK

\* fuseFS.Create: the status returned
CreateStatus(isClosed) == IF isClosed THEN EROFS ELSE FuseOK

\* fuseFS.Open: the status returned
OpenStatus(isClosed, flags) ==
    IF isClosed THEN EROFS
    ELSE IF AccessMode(flags) = 0 THEN EACCES
    ELSE FuseOK

\* the filesystem is mounted: Stop has not reached server.Unmount()
Mounted == outputDir = "mount" /\ stepPc \in {"running", "stopping"}

\* the callback of Open or Create of status st by a process of task t on
\* name n: the status OK comes with a fresh buffer and openFiles.Add(1)
FuseCall(op, t, n, flags, st) ==
    /\ lastOp' = [op |-> op, step |-> flags, ret |-> st, again |-> FALSE]
    /\ IF st = FuseOK
       THEN /\ emitted < MaxFiles
            /\ handles' = handles \cup
                 {[h |-> emitted + 1, task |-> t, name |-> n, content |-> <<>>, pc |-> "open"]}
            /\ files' = files \cup {n}
            /\ emitted' = emitted + 1
            /\ UNCHANGED written
       ELSE /\ written' = IF st = EROFS
                          THEN written \cup {[task |-> t, Name |-> n, data |-> <<>>,
                                              how |-> st, inTask |-> t \in running]}
                          ELSE written
            /\ UNCHANGED <<handles, files, emitted>>
    /\ UNCHANGED <<step, resource, task, seqResource, seqTask, objects, outputChan,
                   outputDir, stepPc, closed, queue, running>>
    /\ UNCHANGED notStep

\* fuseFS.Create
FuseCreate(t) ==
    /\ Mounted
    /\ t \in running \cup executed
    /\ \E n \in FileNames : FuseCall("Create", t, n, NULL, CreateStatus(closed))

\* fuseFS.Open
FuseOpen(t) ==
    /\ Mounted
    /\ t \in running \cup executed
    /\ \E n \in FileNames, flags \in OpenFlags :
          FuseCall("Open", t, n, flags, OpenStatus(closed, flags))

\* FuseWatcher.Stop up to its wait: on a closed watcher it returns nil at
\* once; the first call, of the deferred cleanup, sets closed
Stop ==
    /\ IF closed
       THEN /\ lastOp' = [op |-> "Stop", step |-> NULL, ret |-> 0, again |-> TRUE]
            /\ UNCHANGED <<closed, stepPc>>
       ELSE /\ stepPc = "running"
            /\ queue = {}
            /\ running = {}
            /\ closed' = TRUE
            /\ stepPc' = "stopping"
            /\ UNCHANGED lastOp
    /\ UNCHANGED <<step, resource, task, seqResource, seqTask, objects, outputChan, emitted,
                   outputDir, handles, files, written, queue, running>>
    /\ UNCHANGED notStep

NextStop ==
    \/ \E t \in queue : StartTask(t)
    \/ \E t \in running \cup executed : FuseCreate(t)
    \/ \E t \in running \cup executed : FuseOpen(t)
    \/ \E h \in handles : ScriptWrite(h)
    \/ \E h \in handles : ReleaseBegin(h)
    \/ \E h \in handles : ReleaseSend(h)
    \/ \E t \in running : TaskDone(t)
    \/ Stop
    \/ StopUnmount
    \/ StepReturn
    \/ ProcessFuseOutputs

SpecStop == InitMount /\ [][NextStop]_vars

(* C40: once Stop has set closed, every Open and Create returns EROFS,     *)
(* creates no buffer and leaves the number of open handles alone, and a    *)
(* further call of Stop returns nil and changes nothing: the filesystem is *)
(* not unmounted again.                                                    *)
C40_ClosedRejects ==
    [][ closed =>
          /\ {h.h : h \in handles'} \subseteq {h.h : h \in handles}
          /\ files' = files
          /\ (lastOp' # lastOp /\ lastOp'.op \in {"Open", "Create"}) => lastOp'.ret = EROFS
          /\ (lastOp' # lastOp /\ lastOp'.op = "Stop") =>
                /\ lastOp'.ret = 0
                /\ UNCHANGED <<closed, stepPc, outputChan, written>> ]_vars

\* Create was refused on the closed watcher and Stop was called again
C40_Witness ==
    /\ closed
    /\ lastOp.op = "Stop"
    /\ lastOp.again
    /\ \E f \in written : f.how = EROFS /\ f.task \in executed
====
